---- MODULE Spec2Model ----
(***************************************************************************)
(* Model of the tumu library: the common record model (tumu.core.models),  *)
(* the per-source feed adapters (package tumu.feed) with their entry       *)
(* points, the web scrapers (tumu.webscraper), the stock price readers     *)
(* (tumu.stock), the EDINET client (tumu.api) and the function the Zenn    *)
(* adapter replaces (main.zen_feed_data_get).                              *)
(*                                                                         *)
(* Encoding of Python values                                               *)
(*   str            a TLA+ string (Len, \o and SubSeq work on strings)     *)
(*   list, tuple    a sequence                                             *)
(*   dict, object   a record / function; "k in d" is k \in DOMAIN d        *)
(*   Optional[T]    a set with at most one element: None is {} and a       *)
(*                  value v that may be None is {v}                        *)
(*   datetime       a record year, month, day, hour, minute, second        *)
(* The three kanji of the date format (year, month and day markers) are   *)
(* written "nen", "gatsu" and "nichi": the module's strings are ASCII.     *)
(***************************************************************************)
EXTENDS Integers, Sequences, FiniteSets, TLC

VARIABLES
    op,       \* name of the operation the caller performed last
    arg,      \* the arguments of that operation
    obj,      \* the object the caller holds (RecordSpec), as Optional
    ret,      \* what the operation returned or raised
    fetched,  \* the URLs that operation handed to feedparser.parse or to
              \* requests.get, in call order
    parsed,   \* what came back for them, as Optional: the document of
              \* feedparser.parse, the outcome of the HTTP or library call
    now,      \* what datetime.now() returned during the operation, in call order
    effects   \* what else the operation did to its environment, in call
              \* order: sleeps, files written

vars == <<op, arg, obj, ret, fetched, parsed, now, effects>>

----------------------------------------------------------------------------
(* Python values *)

None == {}

Some(v) == {v}

Val(o) == CHOOSE v \in o : TRUE

\* truth value of an Optional[str]: None and "" are falsy
TruthyStr(o) == o # None /\ o # Some("")

\* truth value of an Optional[list]: None and [] are falsy
TruthyList(o) == o # None /\ o # Some(<<>>)

\* dict.get(k, default)
Get(d, k, default) == IF k \in DOMAIN d THEN d[k] ELSE default

DigitChar(n) ==
    CASE n = 0 -> "0" [] n = 1 -> "1" [] n = 2 -> "2" [] n = 3 -> "3"
      [] n = 4 -> "4" [] n = 5 -> "5" [] n = 6 -> "6" [] n = 7 -> "7"
      [] n = 8 -> "8" [] n = 9 -> "9"

\* zero-padded decimal, two and four digits (%m, %d; %Y for years >= 1000)
Pad2(n) == DigitChar((n \div 10) % 10) \o DigitChar(n % 10)

Pad4(n) == Pad2(n \div 100) \o Pad2(n % 100)

----------------------------------------------------------------------------
(* tumu.core.models *)

\* the length from which a summary is cut
SummaryLimit == 150

Ellipsis == "..."

\* a cut that also cuts a summary of exactly 150 characters
Truncate_AtLimit(s) ==
    IF Len(s) >= SummaryLimit
    THEN SubSeq(s, 1, SummaryLimit) \o Ellipsis
    ELSE s

\* summary[:150] + "..." if len(summary) > 150 else summary
Truncate(s) ==
    IF Len(s) > SummaryLimit
    THEN SubSeq(s, 1, SummaryLimit) \o Ellipsis
    ELSE s

\* Article(title, url, published_date, source, summary=None, author=None,
\*         tags=None, image_url=None)
Article(title, url, published_date, source, summary, author, tags, image_url) ==
    [cls |-> "Article",
     title |-> title, url |-> url, published_date |-> published_date,
     source |-> source, summary |-> summary, author |-> author,
     tags |-> tags, image_url |-> image_url]

\* Article.short_summary
Article_short_summary(self) ==
    IF ~TruthyStr(self.summary) THEN "" ELSE Truncate(Val(self.summary))

\* "x or ''" on an Optional[str]
OrEmptyStr(o) == IF TruthyStr(o) THEN o ELSE Some("")

\* "x or []" on an Optional[list]
OrEmptyList(o) == IF TruthyList(o) THEN o ELSE Some(<<>>)

\* a serialisation that passes the optional fields through unchanged
Article_to_dict_PassThrough(self) ==
    [title |-> Some(self.title), url |-> Some(self.url),
     publishedDate |-> Some(self.published_date),
     source |-> Some(self.source),
     summary |-> Some(Article_short_summary(self)),
     author |-> self.author, tags |-> self.tags,
     imageUrl |-> self.image_url]

\* Article.to_dict: every value of the dict is kept as an Optional, so that
\* a None in it can be told from a value
Article_to_dict(self) ==
    [title |-> Some(self.title), url |-> Some(self.url),
     publishedDate |-> Some(self.published_date),
     source |-> Some(self.source),
     summary |-> Some(Article_short_summary(self)),
     author |-> OrEmptyStr(self.author),
     tags |-> OrEmptyList(self.tags),
     imageUrl |-> OrEmptyStr(self.image_url)]

\* a constructor hook that keeps the count it was handed
FeedResult_post_init_KeepPassed(self) == self

\* FeedResult.__post_init__
FeedResult_post_init(self) ==
    [self EXCEPT !.total_count = Len(self.articles)]

\* FeedResult(articles, feed_title, feed_url, fetched_at, total_count=0):
\* the generated __init__ stores the fields, then runs __post_init__
FeedResult(articles, feed_title, feed_url, fetched_at, total_count) ==
    FeedResult_post_init(
        [cls |-> "FeedResult", articles |-> articles,
         feed_title |-> feed_title, feed_url |-> feed_url,
         fetched_at |-> fetched_at, total_count |-> total_count])

\* datetime.isoformat() of a datetime without microseconds
Isoformat(dt) ==
    Pad4(dt.year) \o "-" \o Pad2(dt.month) \o "-" \o Pad2(dt.day) \o "T"
      \o Pad2(dt.hour) \o ":" \o Pad2(dt.minute) \o ":" \o Pad2(dt.second)

\* [article.to_dict() for article in articles]
ToDictAll(articles) ==
    [i \in 1..Len(articles) |-> Article_to_dict(articles[i])]

\* FeedResult.to_dict
FeedResult_to_dict(self) ==
    [feedTitle |-> self.feed_title, feedUrl |-> self.feed_url,
     fetchedAt |-> Isoformat(self.fetched_at),
     totalCount |-> self.total_count,
     articles |-> ToDictAll(self.articles)]

----------------------------------------------------------------------------
(* tumu.feed.zenn: the record of the Zenn adapter *)

\* ZennArticle(title, summary, url, published_date, image_url=None,
\*             ogp_image_url=None)
ZennArticle(title, summary, url, published_date, image_url, ogp_image_url) ==
    [cls |-> "ZennArticle",
     title |-> title, summary |-> summary, url |-> url,
     published_date |-> published_date, image_url |-> image_url,
     ogp_image_url |-> ogp_image_url]

\* ZennArticle.short_summary
ZennArticle_short_summary(self) == Truncate(self.summary)

\* ZennArticle.to_dict
ZennArticle_to_dict(self) ==
    [title |-> self.title,
     summary |-> ZennArticle_short_summary(self),
     imageUrl |-> IF TruthyStr(self.image_url) THEN Val(self.image_url) ELSE "",
     url |-> self.url,
     publishedDate |-> self.published_date]

----------------------------------------------------------------------------
(* What the adapters share: the feed collaborator's document, dates *)

\* "a or b" on two strings
OrStr(a, b) == IF a # "" THEN a ELSE b

\* "k in entry and entry[k]" for a field holding a time tuple or None
HasTime(entry, k) ==
    k \in DOMAIN entry /\ entry[k] # None /\ entry[k] # Some(<<>>)

IsLeap(y) == (y % 4 = 0 /\ y % 100 # 0) \/ y % 400 = 0

DaysInMonth(y, m) ==
    CASE m \in {1, 3, 5, 7, 8, 10, 12} -> 31
      [] m \in {4, 6, 9, 11} -> 30
      [] m = 2 -> IF IsLeap(y) THEN 29 ELSE 28

\* t[:6]
First6(t) == SubSeq(t, 1, IF Len(t) < 6 THEN Len(t) ELSE 6)

\* datetime(*t[:6]) inside "try: ... except: pass": the datetime, or None
\* when the constructor raises (fewer than three fields, a field out of
\* range)
TryDatetime(t) ==
    LET a == First6(t)
        f(i) == IF i <= Len(a) THEN a[i] ELSE 0
    IN  IF /\ Len(a) >= 3
           /\ f(1) \in 1..9999
           /\ f(2) \in 1..12
           /\ f(3) \in 1..DaysInMonth(f(1), f(2))
           /\ f(4) \in 0..23 /\ f(5) \in 0..59 /\ f(6) \in 0..59
        THEN Some([year |-> f(1), month |-> f(2), day |-> f(3),
                   hour |-> f(4), minute |-> f(5), second |-> f(6)])
        ELSE None

\* pub_time.strftime of the date format, for a four-digit year
Strftime(dt) ==
    Pad4(dt.year) \o "nen" \o Pad2(dt.month) \o "gatsu" \o Pad2(dt.day)
      \o "nichi"

\* a conversion without the try: None stands for the error that escapes
DateOrNow_NoTry(o, t) == IF o = None THEN None ELSE Some(Strftime(Val(o)))

\* "pub_time = datetime.now(); try: pub_time = datetime(...) except: pass"
\* and the strftime after it, o being TryDatetime's result and t the value
\* of datetime.now().  The result is an Optional for the sake of the code
\* paths that can raise: this one never does
DateOrNow(o, t) == Some(Strftime(IF o = None THEN t ELSE Val(o)))

\* the date code of zenn, classmethod, ggen and googlecloud: published_parsed
\* only; t is the adapter's datetime.now() for this entry
PublishedDate(entry, t) ==
    IF HasTime(entry, "published_parsed")
    THEN DateOrNow(TryDatetime(Val(entry["published_parsed"])), t)
    ELSE Some(Strftime(t))

\* the date code of aws, huggingface, deepmind, openai and googleai:
\* published_parsed, elif updated_parsed, each in its own try
PublishedOrUpdatedDate(entry, t) ==
    IF HasTime(entry, "published_parsed")
    THEN DateOrNow(TryDatetime(Val(entry["published_parsed"])), t)
    ELSE IF HasTime(entry, "updated_parsed")
    THEN DateOrNow(TryDatetime(Val(entry["updated_parsed"])), t)
    ELSE Some(Strftime(t))

\* the date code of qiita: pick date_field first, convert once
QiitaDate(entry, t) ==
    LET date_field ==
            IF HasTime(entry, "published_parsed")
            THEN entry["published_parsed"]
            ELSE IF HasTime(entry, "updated_parsed")
            THEN entry["updated_parsed"]
            ELSE None
    IN  IF date_field # None
        THEN DateOrNow(TryDatetime(Val(date_field)), t)
        ELSE Some(Strftime(t))

----------------------------------------------------------------------------
(* What the adapters share: tags and images *)

\* a list item that is a Python str is the record [str |-> text]; a dict
\* item is the record of its keys
IsStr(c) == "str" \in DOMAIN c

Range(q) == {q[i] : i \in 1..Len(q)}

RECURSIVE TagTerms(_, _)
\* for tag in entry.get('tags', []):
\*     if isinstance(tag, dict) and 'term' in tag: tags.append(tag['term'])
TagTerms(tags, items) ==
    IF items = <<>> THEN tags
    ELSE LET tag == Head(items)
         IN  TagTerms(IF ~IsStr(tag) /\ "term" \in DOMAIN tag
                      THEN Append(tags, tag.term) ELSE tags,
                      Tail(items))

RECURSIVE TagTermsUnique(_, _)
\* the same loop with "if tag_term not in tags" before the append
TagTermsUnique(tags, items) ==
    IF items = <<>> THEN tags
    ELSE LET tag == Head(items)
         IN  TagTermsUnique(IF /\ ~IsStr(tag) /\ "term" \in DOMAIN tag
                               /\ tag.term \notin Range(tags)
                            THEN Append(tags, tag.term) ELSE tags,
                            Tail(items))

RECURSIVE CategoryTerms(_, _)
\* for category in entry.get('categories', []):
\*     if isinstance(category, str): tags.append(category)
\*     elif isinstance(category, dict) and 'term' in category: ...append(term)
CategoryTerms(tags, items) ==
    IF items = <<>> THEN tags
    ELSE LET category == Head(items)
         IN  CategoryTerms(IF IsStr(category)
                           THEN Append(tags, category.str)
                           ELSE IF "term" \in DOMAIN category
                           THEN Append(tags, category.term)
                           ELSE tags,
                           Tail(items))

\* the characters a..b of the string s that exist (a >= 1), as s[a-1:b]
Slice(s, a, b) ==
    IF a > Len(s) \/ b < a THEN ""
    ELSE SubSeq(s, a, IF b > Len(s) THEN Len(s) ELSE b)

\* s.startswith(prefix)
StartsWith(s, prefix) == Slice(s, 1, Len(prefix)) = prefix

\* d.get(k) of a dict of strings: None when the key is missing
GetOpt(d, k) == IF k \in DOMAIN d THEN Some(d[k]) ELSE None

\* for x in items: if x.get('type', '').startswith('image/'):
\*     image_url = x.get(key); break
\* image_url keeps its value when no item is an image
FirstImage(image_url, items, key) ==
    LET hits == {i \in 1..Len(items) :
                    StartsWith(Get(items[i], "type", ""), "image/")}
    IN  IF hits = {} THEN image_url
        ELSE GetOpt(items[CHOOSE i \in hits : \A k \in hits : i <= k], key)

\* if 'media_thumbnail' in entry: thumbnails = entry.get(...);
\*     if thumbnails and isinstance(thumbnails, list):
\*         image_url = thumbnails[0].get('url')
FirstThumbnail(entry) ==
    LET thumbnails == Get(entry, "media_thumbnail", <<>>)
    IN  IF thumbnails # <<>> THEN GetOpt(thumbnails[1], "url") ELSE None

Char(s, i) == SubSeq(s, i, i)

\* no character of s[a..b] is ch
NoneOf(s, a, b, ch) == \A k \in a..b : Char(s, k) # ch

Quote == "\""

LowerLetters == "abcdefghijklmnopqrstuvwxyz"

UpperLetters == "ABCDEFGHIJKLMNOPQRSTUVWXYZ"

\* the character c with its case changed from the alphabet "from" to "to"
MapChar(c, from, to) ==
    LET at == {k \in 1..Len(from) : Char(from, k) = c}
    IN  IF at = {} THEN c ELSE Char(to, CHOOSE k \in at : TRUE)

RECURSIVE MapCase(_, _, _)
MapCase(s, from, to) ==
    IF s = "" THEN ""
    ELSE MapChar(Char(s, 1), from, to)
           \o MapCase(Slice(s, 2, Len(s)), from, to)

\* s.upper() and s.lower(), for ASCII letters
Upper(s) == MapCase(s, LowerLetters, UpperLetters)

Lower(s) == MapCase(s, UpperLetters, LowerLetters)

\* "sub in s"
Contains(s, sub) ==
    \E i \in 1..(Len(s) + 1) : Slice(s, i, i + Len(sub) - 1) = sub

\* the ends j of a run [^>]+ started right after "<img" at i for which the
\* rest of the pattern, src="([^"]+)", matches after j
ImgRunEnds(s, i) ==
    {j \in (i + 4)..Len(s) :
        /\ NoneOf(s, i + 4, j, ">")
        /\ Slice(s, j + 1, j + 5) = "src=" \o Quote
        /\ j + 6 <= Len(s)
        /\ Char(s, j + 6) # Quote
        /\ \E q \in (j + 7)..Len(s) : Char(s, q) = Quote}

\* the start positions at which <img[^>]+src="([^"]+)" matches
ImgStarts(s) ==
    {i \in 1..Len(s) : Slice(s, i, i + 3) = "<img" /\ ImgRunEnds(s, i) # {}}

\* group(1) of the leftmost match of <img[^>]+src="([^"]+)", its [^>]+ taken
\* as long as possible, or None.  The pattern is matched on m and the group
\* read from s: m is s, or s in lower case under re.IGNORECASE
ImgSrcOn(m, s) ==
    IF ImgStarts(m) = {} THEN None
    ELSE LET i == CHOOSE a \in ImgStarts(m) : \A b \in ImgStarts(m) : a <= b
             j == CHOOSE a \in ImgRunEnds(m, i) :
                      \A b \in ImgRunEnds(m, i) : a >= b
             ends == {q \in (j + 7)..Len(m) : Char(m, q) = Quote}
             q == CHOOSE a \in ends : \A b \in ends : a <= b
         IN  Some(SubSeq(s, j + 6, q - 1))

\* re.search(r'<img[^>]+src="([^"]+)"', s)
ImgSrc(s) == ImgSrcOn(s, s)

ImageSuffixes == {".jpg", ".jpeg", ".png", ".gif", ".webp"}

\* the closing quote of src="(https://[^"]+\.(?:jpg|jpeg|png|gif|webp))"
\* started at i in the lower-case text m: the first quote after "https://",
\* when the text before it ends in one of the suffixes after at least one
\* more character; 0 when there is none
SrcHttpsEnd(m, i) ==
    LET ends == {q \in (i + 13)..Len(m) : Char(m, q) = Quote}
        q == CHOOSE a \in ends : \A b \in ends : a <= b
    IN  IF /\ Slice(m, i, i + 12) = "src=" \o Quote \o "https://"
           /\ ends # {}
           /\ \E x \in ImageSuffixes :
                 /\ q - Len(x) > i + 13
                 /\ Slice(m, q - Len(x), q - 1) = x
        THEN q ELSE 0

\* re.search(r'src="(https://[^"]+\.(?:jpg|jpeg|png|gif|webp))"', s,
\*           re.IGNORECASE)
SrcHttps(s) ==
    LET m == Lower(s)
        starts == {i \in 1..Len(m) : SrcHttpsEnd(m, i) # 0}
        i == CHOOSE a \in starts : \A b \in starts : a <= b
    IN  IF starts = {} THEN None
        ELSE Some(SubSeq(s, i + 5, SrcHttpsEnd(m, i) - 1))

\* "if not image_url and text: m = re.search(...); if m: image_url = group(1)"
ImageFromText(image_url, text) ==
    IF ~TruthyStr(image_url) /\ text # "" /\ ImgSrc(text) # None
    THEN ImgSrc(text) ELSE image_url

----------------------------------------------------------------------------
(* What the adapters share: summary, author, results *)

\* content[0].get('value', '') under "content and isinstance(content, list)"
FirstContentValue(entry) ==
    LET content == Get(entry, "content", <<>>)
    IN  IF content # <<>> THEN Get(content[1], "value", "") ELSE ""

\* authors[0].get('name', '') under "authors and isinstance(authors, list)";
\* author keeps its value when the list is empty
FirstAuthorName(author, entry) ==
    LET authors == Get(entry, "authors", <<>>)
    IN  IF authors # <<>> THEN Get(authors[1], "name", "") ELSE author

\* author = entry.get('author', ''); if not author and 'authors' in entry: ...
AuthorOrAuthors(entry) ==
    LET author == Get(entry, "author", "")
    IN  IF author = "" /\ "authors" \in DOMAIN entry
        THEN FirstAuthorName(author, entry) ELSE author

\* what a call hands back: a value, or an exception
Return(v) == [kind |-> "return", value |-> v]

Raise(exc) == [kind |-> "raise", exc |-> exc]

\* a Python list handed back to the caller
PyList(items) == [cls |-> "list", items |-> items]

\* hasattr(v, name), v a value handed back to the caller
HasAttr(v, name) == v.cls # "list" /\ name \in (DOMAIN v \ {"cls"})

\* a collection that hands the articles back last entry first
Collected_Reversed(made) ==
    IF \E i \in 1..Len(made) : made[i] = None
    THEN None
    ELSE Some([i \in 1..Len(made) |-> Val(made[Len(made) + 1 - i])])

\* the loop "for entry in f.entries: ...; articles.append(article)": made[i]
\* is the article of entry i, or None when building it raised, and the
\* first error ends the loop
Collected(made) ==
    IF \E i \in 1..Len(made) : made[i] = None
    THEN None
    ELSE Some([i \in 1..Len(made) |-> Val(made[i])])

\* return FeedResult(articles=articles, feed_title=..., feed_url=url,
\*                   fetched_at=datetime.now())
FeedResultOf(made, feed_title, url, fetched_at) ==
    IF Collected(made) = None THEN Raise("ValueError")
    ELSE Return(FeedResult(Val(Collected(made)), feed_title, url,
                           fetched_at, 0))

\* Article(...) once the date is there; None when the date code raised
ArticleAt(date, title, url, source, summary, author, tags, image_url) ==
    IF date = None THEN None
    ELSE Some(Article(title, url, Val(date), source, Some(summary),
                      Some(author), Some(tags), image_url))

----------------------------------------------------------------------------
(* tumu.feed.zenn *)

RECURSIVE ZennImage(_, _)
\* if link_type.startswith('image/') and not image_url:
\*     image_url = link.get('href')
ZennImage(image_url, links) ==
    IF links = <<>> THEN image_url
    ELSE LET link == Head(links)
         IN  ZennImage(IF /\ StartsWith(Get(link, "type", ""), "image/")
                          /\ ~TruthyStr(image_url)
                       THEN GetOpt(link, "href") ELSE image_url,
                       Tail(links))

RECURSIVE ZennOgpImage(_, _)
\* if link_rel == 'enclosure' and link_type.startswith('image/'):
\*     ogp_image_url = link.get('href')
ZennOgpImage(ogp_image_url, links) ==
    IF links = <<>> THEN ogp_image_url
    ELSE LET link == Head(links)
         IN  ZennOgpImage(IF /\ Get(link, "rel", "") = "enclosure"
                             /\ StartsWith(Get(link, "type", ""), "image/")
                          THEN GetOpt(link, "href") ELSE ogp_image_url,
                          Tail(links))

\* the body of the loop of ZennFeedParser.parse_feed
Zenn_article(entry, t) ==
    LET date == PublishedDate(entry, t)
    IN  IF date = None THEN None
        ELSE Some(ZennArticle(Get(entry, "title", ""),
                              Get(entry, "summary", ""),
                              Get(entry, "link", ""),
                              Val(date),
                              ZennImage(None, Get(entry, "links", <<>>)),
                              ZennOgpImage(None, Get(entry, "links", <<>>))))

\* ZennFeedParser.parse_feed: doc is what feedparser.parse(url) returned and
\* clock[i] what datetime.now() returned for entry i
Zenn_parse_feed(url, doc, clock) ==
    LET made == [i \in 1..Len(doc.entries) |->
                    Zenn_article(doc.entries[i], clock[i])]
    IN  IF Collected(made) = None THEN Raise("ValueError")
        ELSE Return(PyList(Val(Collected(made))))

\* the URL of zenn.get_feed(topic, all_pages)
Zenn_feed_url(topic, all_pages) ==
    IF topic = None THEN "https://zenn.dev/feed"
    ELSE "https://zenn.dev/topics/" \o Val(topic) \o "/feed"
           \o (IF all_pages THEN "?all=1" ELSE "")

----------------------------------------------------------------------------
(* tumu.feed.classmethod *)

\* "if not image_url and 'content' in entry": the first <img> of content[0]
ContentImage(image_url, entry) ==
    IF /\ ~TruthyStr(image_url)
       /\ "content" \in DOMAIN entry
       /\ ImgSrc(FirstContentValue(entry)) # None
    THEN ImgSrc(FirstContentValue(entry)) ELSE image_url

ClassMethod_article(entry, t) ==
    ArticleAt(PublishedDate(entry, t),
              Get(entry, "title", ""), Get(entry, "link", ""), "classmethod",
              Get(entry, "summary", ""),
              AuthorOrAuthors(entry),
              TagTerms(<<>>, Get(entry, "tags", <<>>)),
              ContentImage(FirstImage(None, Get(entry, "links", <<>>), "href"),
                           entry))

ClassMethod_parse_feed(url, doc, clock) ==
    FeedResultOf([i \in 1..Len(doc.entries) |->
                     ClassMethod_article(doc.entries[i], clock[i])],
                 Get(doc.feed, "title", "ClassMethod Developers IO"),
                 url, clock[Len(doc.entries) + 1])

ClassMethod_feed_url(tag) ==
    IF tag = None THEN "https://dev.classmethod.jp/feed/"
    ELSE "https://dev.classmethod.jp/tags/" \o Val(tag) \o "/feed/"

----------------------------------------------------------------------------
(* tumu.feed.ggen *)

GGen_FEED_URL == "https://blog.g-gen.co.jp/feed"

GGen_article(entry, t) ==
    LET summary == Get(entry, "summary", "")
    IN  ArticleAt(PublishedDate(entry, t),
                  Get(entry, "title", ""), Get(entry, "link", ""), "ggen",
                  summary,
                  Get(entry, "author", ""),
                  TagTerms(<<>>, Get(entry, "tags", <<>>)),
                  ImageFromText(ContentImage(None, entry), summary))

GGen_parse_feed(url, doc, clock) ==
    FeedResultOf([i \in 1..Len(doc.entries) |->
                     GGen_article(doc.entries[i], clock[i])],
                 Get(doc.feed, "title", "G-GEN Tech Blog"),
                 url, clock[Len(doc.entries) + 1])

----------------------------------------------------------------------------
(* tumu.feed.qiita *)

\* summary = entry.get('summary', ''); if not summary and 'content' in entry
Qiita_summary(entry) ==
    LET summary == Get(entry, "summary", "")
    IN  IF summary = "" /\ "content" \in DOMAIN entry
             /\ Get(entry, "content", <<>>) # <<>>
        THEN FirstContentValue(entry) ELSE summary

\* if 'author' in entry / elif 'author_detail' in entry /
\* elif 'authors' in entry and entry['authors']
Qiita_author(entry) ==
    IF "author" \in DOMAIN entry THEN entry["author"]
    ELSE IF "author_detail" \in DOMAIN entry
    THEN Get(entry["author_detail"], "name", "")
    ELSE IF "authors" \in DOMAIN entry /\ entry["authors"] # <<>>
    THEN Get(entry["authors"][1], "name", "")
    ELSE ""

Qiita_article(entry, t) ==
    LET summary == Qiita_summary(entry)
    IN  ArticleAt(QiitaDate(entry, t),
                  Get(entry, "title", ""), Get(entry, "link", ""), "qiita",
                  summary,
                  Qiita_author(entry),
                  CategoryTerms(TagTerms(<<>>, Get(entry, "tags", <<>>)),
                                Get(entry, "categories", <<>>)),
                  ImageFromText(
                      FirstImage(None, Get(entry, "links", <<>>), "href"),
                      summary))

Qiita_parse_feed(url, doc, clock) ==
    FeedResultOf([i \in 1..Len(doc.entries) |->
                     Qiita_article(doc.entries[i], clock[i])],
                 Get(doc.feed, "title", "Qiita"),
                 url, clock[Len(doc.entries) + 1])

Qiita_feed_url(tag) ==
    IF tag = None THEN "https://qiita.com/popular-items/feed.atom"
    ELSE "https://qiita.com/tags/" \o Val(tag) \o "/feed"

----------------------------------------------------------------------------
(* tumu.feed.googlecloud and tumu.feed.aws: one feed per language *)

\* FEED_URLS, a dict keyed by language
GoogleCloud_FEED_URLS ==
    [en |-> "https://cloudblog.withgoogle.com/rss/",
     ja |-> "https://cloudblog.withgoogle.com/ja/rss/"]

AWS_FEED_URLS ==
    [ja |-> "https://aws.amazon.com/jp/blogs/news/feed/",
     en |-> "https://aws.amazon.com/jp/blogs/aws/feed/"]

\* f"{base_title} ({lang.upper()})"
TitleWithLang(base_title, lang) == base_title \o " (" \o Upper(lang) \o ")"

\* author = entry.get('author', ''); if not author and 'dc:creator' in entry
AuthorOrCreator(entry, default) ==
    LET author == Get(entry, "author", default)
    IN  IF author = "" /\ "dc:creator" \in DOMAIN entry
        THEN Get(entry, "dc:creator", default) ELSE author

\* categories first, then the tags not yet there
CategoriesThenTags(entry) ==
    TagTermsUnique(CategoryTerms(<<>>, Get(entry, "categories", <<>>)),
                   Get(entry, "tags", <<>>))

\* an enclosure step that runs whatever the earlier steps found
EnclosureImage_Override(image_url, entry) ==
    FirstImage(image_url, Get(entry, "enclosures", <<>>), "href")

\* "if not image_url: for enclosure in entry.get('enclosures', []): ..."
EnclosureImage(image_url, entry) ==
    IF TruthyStr(image_url) THEN image_url
    ELSE FirstImage(image_url, Get(entry, "enclosures", <<>>), "href")

\* a source name that leaves the language out
LangSource_NoLang(name, lang) == name

\* f"{SOURCE_NAME}_{lang}"
LangSource(name, lang) == name \o "_" \o lang

GoogleCloud_article(entry, lang, t) ==
    LET summary == OrStr(Get(entry, "description", ""),
                         Get(entry, "summary", ""))
    IN  ArticleAt(PublishedDate(entry, t),
                  Get(entry, "title", ""), Get(entry, "link", ""),
                  LangSource("googlecloud", lang),
                  summary,
                  AuthorOrCreator(entry, ""),
                  CategoriesThenTags(entry),
                  ImageFromText(EnclosureImage(FirstThumbnail(entry), entry),
                                summary))

GoogleCloud_parse_feed(url, lang, doc, clock) ==
    FeedResultOf([i \in 1..Len(doc.entries) |->
                     GoogleCloud_article(doc.entries[i], lang, clock[i])],
                 TitleWithLang(Get(doc.feed, "title", "Google Cloud Blog"),
                               lang),
                 url, clock[Len(doc.entries) + 1])

\* author, else dc:creator, else authors[0].name, as the if / elif reads
AWS_author(entry) ==
    LET author == Get(entry, "author", "")
    IN  IF author = "" /\ "dc:creator" \in DOMAIN entry
        THEN Get(entry, "dc:creator", "")
        ELSE IF author = "" /\ "authors" \in DOMAIN entry
        THEN FirstAuthorName(author, entry)
        ELSE author

\* "if not image_url and 'media_content' in entry: for media in ...: ..."
MediaContentImage(image_url, entry) ==
    IF TruthyStr(image_url) THEN image_url
    ELSE FirstImage(image_url, Get(entry, "media_content", <<>>), "url")

AWS_article(entry, lang, t) ==
    LET summary == OrStr(Get(entry, "summary", ""),
                         Get(entry, "description", ""))
    IN  ArticleAt(PublishedOrUpdatedDate(entry, t),
                  Get(entry, "title", ""), Get(entry, "link", ""),
                  LangSource("aws", lang),
                  summary,
                  AWS_author(entry),
                  CategoriesThenTags(entry),
                  ImageFromText(
                      EnclosureImage(
                          MediaContentImage(FirstThumbnail(entry), entry),
                          entry),
                      summary))

AWS_parse_feed(url, lang, doc, clock) ==
    FeedResultOf([i \in 1..Len(doc.entries) |->
                     AWS_article(doc.entries[i], lang, clock[i])],
                 TitleWithLang(Get(doc.feed, "title", "AWS Blog"), lang),
                 url, clock[Len(doc.entries) + 1])

----------------------------------------------------------------------------
(* tumu.feed.huggingface, tumu.feed.deepmind, tumu.feed.openai *)

HuggingFace_FEED_URL == "https://huggingface.co/blog/feed.xml"

DeepMind_FEED_URL == "https://deepmind.com/blog/feed/basic/"

OpenAI_FEED_URL == "https://openai.com/blog/rss.xml"

\* summary = entry.get('summary', '') or entry.get('description', '')
SummaryOrDescription(entry) ==
    OrStr(Get(entry, "summary", ""), Get(entry, "description", ""))

\* tags first, then categories, nothing removed
TagsThenCategories(entry) ==
    CategoryTerms(TagTerms(<<>>, Get(entry, "tags", <<>>)),
                  Get(entry, "categories", <<>>))

HuggingFace_article(entry, t) ==
    ArticleAt(PublishedOrUpdatedDate(entry, t),
              Get(entry, "title", ""), Get(entry, "link", ""), "huggingface",
              SummaryOrDescription(entry),
              AuthorOrAuthors(entry),
              TagsThenCategories(entry),
              ImageFromText(
                  FirstImage(None, Get(entry, "enclosures", <<>>), "href"),
                  SummaryOrDescription(entry)))

HuggingFace_parse_feed(url, doc, clock) ==
    FeedResultOf([i \in 1..Len(doc.entries) |->
                     HuggingFace_article(doc.entries[i], clock[i])],
                 Get(doc.feed, "title", "Hugging Face Blog"),
                 url, clock[Len(doc.entries) + 1])

DeepMind_article(entry, t) ==
    ArticleAt(PublishedOrUpdatedDate(entry, t),
              Get(entry, "title", ""), Get(entry, "link", ""), "deepmind",
              SummaryOrDescription(entry),
              Get(entry, "author", "DeepMind"),
              TagsThenCategories(entry),
              ImageFromText(
                  EnclosureImage(MediaContentImage(None, entry), entry),
                  SummaryOrDescription(entry)))

DeepMind_parse_feed(url, doc, clock) ==
    FeedResultOf([i \in 1..Len(doc.entries) |->
                     DeepMind_article(doc.entries[i], clock[i])],
                 Get(doc.feed, "title", "DeepMind Blog"),
                 url, clock[Len(doc.entries) + 1])

OpenAI_article(entry, t) ==
    ArticleAt(PublishedOrUpdatedDate(entry, t),
              Get(entry, "title", ""), Get(entry, "link", ""), "openai",
              SummaryOrDescription(entry),
              AuthorOrCreator(entry, "OpenAI"),
              TagsThenCategories(entry),
              ImageFromText(EnclosureImage(FirstThumbnail(entry), entry),
                            SummaryOrDescription(entry)))

OpenAI_parse_feed(url, doc, clock) ==
    FeedResultOf([i \in 1..Len(doc.entries) |->
                     OpenAI_article(doc.entries[i], clock[i])],
                 Get(doc.feed, "title", "OpenAI Blog"),
                 url, clock[Len(doc.entries) + 1])

----------------------------------------------------------------------------
(* tumu.feed.googleai *)

GoogleAI_FEED_URL == "https://feeds.feedburner.com/blogspot/gJZg"

\* article_url = entry.get('link', ''); if 'feedburner_origlink' in entry: ...
GoogleAI_url(entry) ==
    Get(entry, "feedburner_origlink", Get(entry, "link", ""))

\* the summary, replaced by content[0].value when that is longer
GoogleAI_summary(entry) ==
    LET summary == SummaryOrDescription(entry)
        content_value == FirstContentValue(entry)
    IN  IF /\ "content" \in DOMAIN entry
           /\ entry["content"] # <<>>
           /\ content_value # ""
           /\ Len(content_value) > Len(summary)
        THEN content_value ELSE summary

IsDigit(c) == \E d \in 0..9 : DigitChar(d) = c

DigitValue(c) == CHOOSE d \in 0..9 : DigitChar(d) = c

RECURSIVE DecimalValue(_)
DecimalValue(s) ==
    IF s = "" THEN 0
    ELSE 10 * DecimalValue(SubSeq(s, 1, Len(s) - 1))
           + DigitValue(Char(s, Len(s)))

\* int(v) for a str v without blanks or underscores: an optional sign and
\* decimal digits; None when int raises ValueError
IntOf(v) ==
    LET signed == Char(v, 1) \in {"+", "-"}
        digits == IF signed THEN Slice(v, 2, Len(v)) ELSE v
    IN  IF v = "" \/ digits = ""
           \/ \E i \in 1..Len(digits) : ~IsDigit(Char(digits, i))
        THEN None
        ELSE Some(IF Char(v, 1) = "-" THEN 0 - DecimalValue(digits)
                  ELSE DecimalValue(digits))

\* int(x.get(k, 0)) as an Optional
IntField(x, k) == IF k \in DOMAIN x THEN IntOf(x[k]) ELSE Some(0)

\* the key of max: int(x.get('width', 0)) * int(x.get('height', 0)), None
\* when either int raises
ThumbnailArea(x) ==
    IF IntField(x, "width") = None \/ IntField(x, "height") = None THEN None
    ELSE Some(Val(IntField(x, "width")) * Val(IntField(x, "height")))

\* max(thumbnails, key=...) raises: the key is computed for every item
LargestRaises(entry) ==
    LET thumbnails == Get(entry, "media_thumbnail", <<>>)
    IN  \E i \in 1..Len(thumbnails) : ThumbnailArea(thumbnails[i]) = None

\* thumbnail = max(thumbnails, key=...); image_url = thumbnail.get('url'):
\* the first of the items with the largest key
LargestThumbnail(entry) ==
    LET thumbnails == Get(entry, "media_thumbnail", <<>>)
        area(i) == Val(ThumbnailArea(thumbnails[i]))
        best == CHOOSE i \in 1..Len(thumbnails) :
                    \A k \in 1..Len(thumbnails) :
                        /\ area(k) <= area(i)
                        /\ k < i => area(k) < area(i)
    IN  IF thumbnails # <<>> THEN GetOpt(thumbnails[best], "url") ELSE None

\* the two patterns tried in order under re.IGNORECASE, first match wins
GoogleAI_ImageFromText(image_url, text) ==
    IF TruthyStr(image_url) \/ text = "" THEN image_url
    ELSE IF ImgSrcOn(Lower(text), text) # None
    THEN ImgSrcOn(Lower(text), text)
    ELSE IF SrcHttps(text) # None THEN SrcHttps(text)
    ELSE image_url

\* None when the thumbnail selection raises
GoogleAI_article(entry, t) ==
    IF LargestRaises(entry) THEN None
    ELSE ArticleAt(PublishedOrUpdatedDate(entry, t),
                   Get(entry, "title", ""), GoogleAI_url(entry), "googleai",
                   GoogleAI_summary(entry),
                   AuthorOrAuthors(entry),
                   TagsThenCategories(entry),
                   GoogleAI_ImageFromText(
                       EnclosureImage(LargestThumbnail(entry), entry),
                       GoogleAI_summary(entry)))

GoogleAI_parse_feed(url, doc, clock) ==
    FeedResultOf([i \in 1..Len(doc.entries) |->
                     GoogleAI_article(doc.entries[i], clock[i])],
                 Get(doc.feed, "title", "Google AI Blog"),
                 url, clock[Len(doc.entries) + 1])

----------------------------------------------------------------------------
(* The get_feed entry points.  Each takes the document feedparser.parse    *)
(* hands back and the values of the successive datetime.now() calls, and   *)
(* yields the outcome of the call and the URLs it passed to feedparser.    *)

\* a call that fetched url and then returned or raised outcome
Fetched(url, outcome) == [ret |-> outcome, fetched |-> <<url>>]

\* a refusal that comes only after the default feed was fetched
Refused_AfterFetch(exc) ==
    [ret |-> Raise(exc), fetched |-> <<GoogleCloud_FEED_URLS["ja"]>>]

\* a call that raised exc ahead of any fetch
Refused(exc) == [ret |-> Raise(exc), fetched |-> <<>>]

\* if lang not in FEED_URLS
Unsupported(lang, urls) == lang \notin DOMAIN urls

Zenn_get_feed(topic, all_pages, doc, clock) ==
    Fetched(Zenn_feed_url(topic, all_pages),
            Zenn_parse_feed(Zenn_feed_url(topic, all_pages), doc, clock))

ClassMethod_get_feed(tag, doc, clock) ==
    Fetched(ClassMethod_feed_url(tag),
            ClassMethod_parse_feed(ClassMethod_feed_url(tag), doc, clock))

GGen_get_feed(doc, clock) ==
    Fetched(GGen_FEED_URL, GGen_parse_feed(GGen_FEED_URL, doc, clock))

Qiita_get_feed(tag, doc, clock) ==
    Fetched(Qiita_feed_url(tag),
            Qiita_parse_feed(Qiita_feed_url(tag), doc, clock))

\* get_feed(lang="ja"): the check, then url = FEED_URLS[lang], which raises
\* KeyError for a missing key, then parse_feed(url, lang)
GoogleCloud_get_feed(lang_arg, doc, clock) ==
    LET lang == IF lang_arg = None THEN "ja" ELSE Val(lang_arg)
    IN  IF Unsupported(lang, GoogleCloud_FEED_URLS)
        THEN Refused("ValueError")
        ELSE IF lang \notin DOMAIN GoogleCloud_FEED_URLS
        THEN Refused("KeyError")
        ELSE Fetched(GoogleCloud_FEED_URLS[lang],
                     GoogleCloud_parse_feed(GoogleCloud_FEED_URLS[lang], lang,
                                            doc, clock))

AWS_get_feed(lang_arg, doc, clock) ==
    LET lang == IF lang_arg = None THEN "ja" ELSE Val(lang_arg)
    IN  IF Unsupported(lang, AWS_FEED_URLS)
        THEN Refused("ValueError")
        ELSE IF lang \notin DOMAIN AWS_FEED_URLS
        THEN Refused("KeyError")
        ELSE Fetched(AWS_FEED_URLS[lang],
                     AWS_parse_feed(AWS_FEED_URLS[lang], lang, doc, clock))

HuggingFace_get_feed(doc, clock) ==
    Fetched(HuggingFace_FEED_URL,
            HuggingFace_parse_feed(HuggingFace_FEED_URL, doc, clock))

DeepMind_get_feed(doc, clock) ==
    Fetched(DeepMind_FEED_URL,
            DeepMind_parse_feed(DeepMind_FEED_URL, doc, clock))

OpenAI_get_feed(doc, clock) ==
    Fetched(OpenAI_FEED_URL, OpenAI_parse_feed(OpenAI_FEED_URL, doc, clock))

GoogleAI_get_feed(doc, clock) ==
    Fetched(GoogleAI_FEED_URL,
            GoogleAI_parse_feed(GoogleAI_FEED_URL, doc, clock))

\* get_feed_by_url(url): lang = "ja" if "/ja/" in url else "en"
GoogleCloud_get_feed_by_url(url, doc, clock) ==
    Fetched(url,
            GoogleCloud_parse_feed(url,
                                   IF Contains(url, "/ja/") THEN "ja" ELSE "en",
                                   doc, clock))

\* get_feed_by_url(url): "ja" for /jp/blogs/news/, "en" for /blogs/aws/,
\* "ja" for every other URL
AWS_get_feed_by_url(url, doc, clock) ==
    Fetched(url,
            AWS_parse_feed(url,
                           IF Contains(url, "/jp/blogs/news/") THEN "ja"
                           ELSE IF Contains(url, "/blogs/aws/") THEN "en"
                           ELSE "ja",
                           doc, clock))

----------------------------------------------------------------------------
(* The caller's view of the record model: objects are constructed, read    *)
(* through their accessors and, the dataclasses not being frozen, changed  *)
(* in place.  One behaviour follows one object from its construction.     *)

\* longest summary drawn
MaxSummaryLen == 152

\* longest article list a FeedResult is built from or grown to
MaxArticles == 2

\* a text of 160 characters: sixteen blocks of ten, each block its own
Text ==
    "Abcdefghij" \o "Bcdefghijk" \o "Cdefghijkl" \o "Defghijklm"
      \o "Efghijklmn" \o "Fghijklmno" \o "Ghijklmnop" \o "Hijklmnopq"
      \o "Ijklmnopqr" \o "Jklmnopqrs" \o "Klmnopqrst" \o "Lmnopqrstu"
      \o "Mnopqrstuv" \o "Nopqrstuvw" \o "Opqrstuvwx" \o "Pqrstuvwxy"

\* the summary of n characters: the first n characters of Text
Mk(n) == SubSeq(Text, 1, n)

SummaryPool == {Mk(n) : n \in 0..MaxSummaryLen}

OptSummaryPool == {None} \cup {Some(s) : s \in SummaryPool}

OptStrPool == {None, Some(""), Some("x")}

OptTagsPool == {None, Some(<<>>), Some(<<"t1", "t2">>)}

ADate == "2024nen01gatsu05nichi"

ADatetime ==
    [year |-> 2024, month |-> 1, day |-> 5, hour |-> 9, minute |-> 30,
     second |-> 7]

\* the articles a FeedResult is built from
ListPool ==
    {Article("a", "u/a", ADate, "zenn", None, None, None, None),
     Article("b", "u/b", ADate, "zenn", Some(""), Some(""), Some(<<>>), Some("")),
     Article("c", "u/c", ADate, "qiita", Some("short"), Some("x"),
             Some(<<"t1", "t2">>), Some("u/img")),
     Article("d", "u/d", ADate, "qiita", Some(Mk(SummaryLimit + 1)), Some("x"),
             None, None)}

RECURSIVE SeqsUpTo(_, _)
\* the sequences over S of length at most n
SeqsUpTo(S, n) ==
    IF n = 0 THEN {<<>>}
    ELSE LET shorter == SeqsUpTo(S, n - 1)
         IN  shorter \cup {Append(q, x) : q \in shorter, x \in S}

\* obj.articles.append(a): the list is the object's own field
ListAppend(self, a) == [self EXCEPT !.articles = Append(@, a)]

\* obj.articles.pop()
ListPop(self) ==
    [self EXCEPT !.articles = SubSeq(@, 1, Len(@) - 1)]

\* obj.total_count = n
SetTotalCount(self, n) == [self EXCEPT !.total_count = n]

RecordInit ==
    /\ op = "" /\ arg = <<>> /\ obj = None /\ ret = None
    /\ fetched = <<>> /\ parsed = None /\ now = <<>> /\ effects = <<>>

Env == UNCHANGED <<fetched, parsed, now, effects>>

NewArticle ==
    /\ obj = None
    /\ \E s \in OptSummaryPool, a \in OptStrPool, t \in OptTagsPool,
       i \in OptStrPool :
        /\ op' = "Article"
        /\ arg' = <<>>
        /\ obj' = Some(Article("a", "u/a", ADate, "zenn", s, a, t, i))
        /\ ret' = obj'
        /\ Env

NewZennArticle ==
    /\ obj = None
    /\ \E s \in SummaryPool, i \in OptStrPool :
        /\ op' = "ZennArticle"
        /\ arg' = <<>>
        /\ obj' = Some(ZennArticle("z", s, "u/z", ADate, i, None))
        /\ ret' = obj'
        /\ Env

NewFeedResult ==
    /\ obj = None
    /\ \E articles \in SeqsUpTo(ListPool, MaxArticles),
       total_count \in 0..(MaxArticles + 1) :
        /\ op' = "FeedResult"
        /\ arg' = [articles |-> articles, total_count |-> total_count]
        /\ obj' = Some(FeedResult(articles, "feed", "u/feed", ADatetime,
                                total_count))
        /\ ret' = obj'
        /\ Env

ReadShortSummary ==
    /\ obj # None
    /\ Val(obj).cls \in {"Article", "ZennArticle"}
    /\ op' = "short_summary"
    /\ arg' = <<>>
    /\ ret' = IF Val(obj).cls = "Article"
              THEN Article_short_summary(Val(obj))
              ELSE ZennArticle_short_summary(Val(obj))
    /\ UNCHANGED obj
    /\ Env

CallToDict ==
    /\ obj # None
    /\ op' = "to_dict"
    /\ arg' = <<>>
    /\ ret' = CASE Val(obj).cls = "Article" -> Article_to_dict(Val(obj))
                [] Val(obj).cls = "ZennArticle" -> ZennArticle_to_dict(Val(obj))
                [] Val(obj).cls = "FeedResult" -> FeedResult_to_dict(Val(obj))
    /\ UNCHANGED obj
    /\ Env

CallerAppend ==
    /\ obj # None
    /\ Val(obj).cls = "FeedResult"
    /\ Len(Val(obj).articles) <= MaxArticles
    /\ \E a \in ListPool :
        /\ op' = "append"
        /\ arg' = [article |-> a]
        /\ obj' = Some(ListAppend(Val(obj), a))
        /\ ret' = None
        /\ Env

CallerPop ==
    /\ obj # None
    /\ Val(obj).cls = "FeedResult"
    /\ Len(Val(obj).articles) > 0
    /\ op' = "pop"
    /\ arg' = <<>>
    /\ obj' = Some(ListPop(Val(obj)))
    /\ ret' = None
    /\ Env

CallerSetTotalCount ==
    /\ obj # None
    /\ Val(obj).cls = "FeedResult"
    /\ \E n \in 0..(MaxArticles + 1) :
        /\ op' = "set_total_count"
        /\ arg' = [value |-> n]
        /\ obj' = Some(SetTotalCount(Val(obj), n))
        /\ ret' = None
        /\ Env

RecordNext ==
    \/ NewArticle
    \/ NewZennArticle
    \/ NewFeedResult
    \/ ReadShortSummary
    \/ CallToDict
    \/ CallerAppend
    \/ CallerPop
    \/ CallerSetTotalCount

RecordSpec == RecordInit /\ [][RecordNext]_vars

----------------------------------------------------------------------------
(* The caller's view of the adapters: one behaviour is one get_feed call.  *)
(* feedparser and the clock are the environment: the call is given the     *)
(* parsed document and the values datetime.now() returns, in call order.   *)

\* most entries in a parsed feed
MaxEntries == 2

\* time tuples as feedparser gives them (struct_time, nine fields)
LeapDay == <<2024, 2, 29, 10, 20, 30, 3, 60, 0>>

Updated == <<2023, 11, 5, 0, 0, 0, 6, 309, 0>>

Month13 == <<2024, 13, 1, 0, 0, 0, 0, 1, 0>>

February30 == <<2023, 2, 30, 0, 0, 0, 0, 1, 0>>

\* an entry with every field the adapters look at
FullEntry ==
    [title |-> "Full", link |-> "https://e/full",
     feedburner_origlink |-> "https://e/orig",
     summary |-> "s <img alt=" \o Quote \o "a" \o Quote \o " src="
                   \o Quote \o "https://e/s.png" \o Quote \o ">",
     description |-> "d",
     content |-> <<[value |-> "<IMG SRC=" \o Quote \o "https://e/c.JPG"
                                \o Quote \o "> and a longer text than s"]>>,
     author |-> "", authors |-> <<[name |-> "Ann"]>>,
     author_detail |-> [name |-> "Det"],
     published_parsed |-> Some(LeapDay), updated_parsed |-> Some(Updated),
     tags |-> <<[term |-> "t1"], [term |-> "t2"]>>,
     categories |-> <<[str |-> "t2"], [term |-> "c1"], [label |-> "x"]>>,
     links |-> <<[type |-> "text/html", href |-> "https://e/full"],
                 [type |-> "image/png", href |-> "https://e/l.png"]>>,
     enclosures |-> <<[type |-> "image/jpeg", href |-> "https://e/e.jpg"]>>,
     media_content |-> <<[type |-> "image/gif", url |-> "https://e/m.gif"]>>,
     media_thumbnail |-> <<[url |-> "https://e/t1.png", width |-> "72",
                            height |-> "72"],
                           [url |-> "https://e/t2.png", width |-> "100",
                            height |-> "80"]>>]

\* the entries a parsed feed is made of
EntryPool ==
    {[id |-> "bare"],
     FullEntry,
     [title |-> "NoDates", link |-> "https://e/1",
      published_parsed |-> None, updated_parsed |-> None],
     [title |-> "BadMonth", link |-> "https://e/2", summary |-> "plain",
      published_parsed |-> Some(Month13), updated_parsed |-> Some(Updated)],
     [title |-> "UpdatedOnly", link |-> "https://e/3",
      updated_parsed |-> Some(Updated)] @@ ("dc:creator" :> "Cre"),
     [title |-> "BadUpdated", published_parsed |-> None,
      updated_parsed |-> Some(February30)],
     [link |-> "https://e/5", published_parsed |-> Some(<<2024, 5>>)],
     [title |-> "AutoWidth", published_parsed |-> Some(LeapDay),
      media_thumbnail |-> <<[url |-> "https://e/t.png", width |-> "auto"]>>]}

\* the parsed documents: the feed with or without a title
Docs ==
    {[feed |-> f, entries |-> es] :
        f \in {[title |-> "The Feed"], [subtitle |-> "untitled"]},
        es \in SeqsUpTo(EntryPool, MaxEntries)}

\* the clock around midnight of a new year
BeforeMidnight ==
    [year |-> 2024, month |-> 12, day |-> 31, hour |-> 23, minute |-> 59,
     second |-> 59]

AfterMidnight ==
    [year |-> 2025, month |-> 1, day |-> 1, hour |-> 0, minute |-> 0,
     second |-> 0]

\* n successive values of datetime.now(): the clock does not go back
Clocks(n) ==
    {[i \in 1..n |-> IF i <= k THEN BeforeMidnight ELSE AfterMidnight] :
        k \in 0..n}

OptNamePool == {None, Some("python"), Some("aws")}

OptLangPool == {None, Some("ja"), Some("en"), Some("fr"), Some("JA"), Some("")}

\* the state after the call whose outcome is out
Called(name, a, out, doc, clock) ==
    /\ op' = name
    /\ arg' = a
    /\ obj' = None
    /\ ret' = out.ret
    /\ fetched' = out.fetched
    /\ parsed' = IF out.fetched = <<>> THEN None ELSE Some(doc)
    /\ now' = IF out.fetched = <<>> THEN <<>> ELSE clock
    /\ UNCHANGED effects

FeedInit == RecordInit

CallZenn ==
    /\ op = ""
    /\ \E topic \in OptNamePool, all_pages \in BOOLEAN, doc \in Docs :
       \E clock \in Clocks(Len(doc.entries)) :
          Called("zenn.get_feed",
                 [topic |-> topic, all_pages |-> all_pages],
                 Zenn_get_feed(topic, all_pages, doc, clock), doc, clock)

CallClassMethod ==
    /\ op = ""
    /\ \E tag \in OptNamePool, doc \in Docs :
       \E clock \in Clocks(Len(doc.entries) + 1) :
          Called("classmethod.get_feed", [tag |-> tag],
                 ClassMethod_get_feed(tag, doc, clock), doc, clock)

CallGGen ==
    /\ op = ""
    /\ \E doc \in Docs :
       \E clock \in Clocks(Len(doc.entries) + 1) :
          Called("ggen.get_feed", <<>>, GGen_get_feed(doc, clock), doc, clock)

CallQiita ==
    /\ op = ""
    /\ \E tag \in OptNamePool, doc \in Docs :
       \E clock \in Clocks(Len(doc.entries) + 1) :
          Called("qiita.get_feed", [tag |-> tag],
                 Qiita_get_feed(tag, doc, clock), doc, clock)

CallGoogleCloud ==
    /\ op = ""
    /\ \E lang \in OptLangPool, doc \in Docs :
       \E clock \in Clocks(Len(doc.entries) + 1) :
          Called("googlecloud.get_feed", [lang |-> lang],
                 GoogleCloud_get_feed(lang, doc, clock), doc, clock)

CallAWS ==
    /\ op = ""
    /\ \E lang \in OptLangPool, doc \in Docs :
       \E clock \in Clocks(Len(doc.entries) + 1) :
          Called("aws.get_feed", [lang |-> lang],
                 AWS_get_feed(lang, doc, clock), doc, clock)

CallHuggingFace ==
    /\ op = ""
    /\ \E doc \in Docs :
       \E clock \in Clocks(Len(doc.entries) + 1) :
          Called("huggingface.get_feed", <<>>,
                 HuggingFace_get_feed(doc, clock), doc, clock)

CallDeepMind ==
    /\ op = ""
    /\ \E doc \in Docs :
       \E clock \in Clocks(Len(doc.entries) + 1) :
          Called("deepmind.get_feed", <<>>,
                 DeepMind_get_feed(doc, clock), doc, clock)

CallOpenAI ==
    /\ op = ""
    /\ \E doc \in Docs :
       \E clock \in Clocks(Len(doc.entries) + 1) :
          Called("openai.get_feed", <<>>,
                 OpenAI_get_feed(doc, clock), doc, clock)

CallGoogleAI ==
    /\ op = ""
    /\ \E doc \in Docs :
       \E clock \in Clocks(Len(doc.entries) + 1) :
          Called("googleai.get_feed", <<>>,
                 GoogleAI_get_feed(doc, clock), doc, clock)

\* feeds of the AWS site: the two of FEED_URLS and the Machine Learning blog
AWSUrlPool ==
    {AWS_FEED_URLS["ja"], AWS_FEED_URLS["en"],
     "https://aws.amazon.com/blogs/machine-learning/feed/"}

\* feeds of the Google Cloud site: the two of FEED_URLS and a product feed
GoogleCloudUrlPool ==
    {GoogleCloud_FEED_URLS["ja"], GoogleCloud_FEED_URLS["en"],
     "https://cloudblog.withgoogle.com/products/ai-machine-learning/rss/"}

CallGoogleCloudByUrl ==
    /\ op = ""
    /\ \E url \in GoogleCloudUrlPool, doc \in Docs :
       \E clock \in Clocks(Len(doc.entries) + 1) :
          Called("googlecloud.get_feed_by_url", [url |-> url],
                 GoogleCloud_get_feed_by_url(url, doc, clock), doc, clock)

CallAWSByUrl ==
    /\ op = ""
    /\ \E url \in AWSUrlPool, doc \in Docs :
       \E clock \in Clocks(Len(doc.entries) + 1) :
          Called("aws.get_feed_by_url", [url |-> url],
                 AWS_get_feed_by_url(url, doc, clock), doc, clock)

FeedNext ==
    \/ CallZenn
    \/ CallClassMethod
    \/ CallGGen
    \/ CallQiita
    \/ CallGoogleCloud
    \/ CallAWS
    \/ CallHuggingFace
    \/ CallDeepMind
    \/ CallOpenAI
    \/ CallGoogleAI
    \/ CallGoogleCloudByUrl
    \/ CallAWSByUrl

FeedSpec == FeedInit /\ [][FeedNext]_vars

----------------------------------------------------------------------------
(* One entry through one parser: the document feedparser will deliver is   *)
(* drawn first, a feed of a single entry, and one parse_feed call of one   *)
(* adapter follows.                                                        *)

\* the entry e with the field k holding v
With(e, k, v) == (k :> v) @@ e

\* the entry e with the field k holding v, or e as it is when v is absent
WithOpt(e, k, v) == IF v = None THEN e ELSE With(e, k, Val(v))

ThumbnailCases ==
    {None, Some(<<>>),
     Some(<<[url |-> "https://i/t1.png", width |-> "72", height |-> "72"],
            [url |-> "https://i/t2.png", width |-> "100", height |-> "80"]>>),
     Some(<<[width |-> "10", height |-> "10"]>>),
     Some(<<[url |-> "https://i/w.png", width |-> "900"],
            [url |-> "https://i/a.png", width |-> "10", height |-> "10"],
            [url |-> "https://i/b.png", width |-> "5", height |-> "20"]>>),
     Some(<<[url |-> "https://i/n.png", width |-> "100%", height |-> "80"],
            [url |-> "https://i/t2.png", width |-> "100", height |-> "80"]>>)}

MediaContentCases ==
    {None,
     Some(<<[type |-> "video/mp4", url |-> "https://i/m.mp4"],
            [type |-> "image/gif", url |-> "https://i/m.gif"]>>)}

EnclosureCases ==
    {None,
     Some(<<[type |-> "audio/mpeg", href |-> "https://i/e.mp3"],
            [type |-> "image/jpeg", href |-> "https://i/e.jpg"]>>)}

ImageSummaryCases ==
    {None, Some("no image here"),
     Some("<p><img class=" \o Quote \o "c" \o Quote \o " src=" \o Quote
            \o "https://i/s.png" \o Quote \o "></p>")}

\* entries over every combination of the image-bearing fields
ImageCases ==
    {WithOpt(WithOpt(WithOpt(WithOpt([title |-> "Image"],
                                     "media_thumbnail", t),
                             "media_content", m),
                     "enclosures", e),
             "summary", x) :
        t \in ThumbnailCases, m \in MediaContentCases, e \in EnclosureCases,
        x \in ImageSummaryCases}

AuthorFieldCases == {None, Some(""), Some("Ann")}

CreatorCases == {None, Some(""), Some("Cre")}

AuthorsCases == {None, Some(<<>>), Some(<<[name |-> "Lis"], [name |-> "Bob"]>>)}

\* entries over every combination of the author-bearing fields
AuthorCases ==
    {WithOpt(WithOpt(WithOpt([title |-> "Author"], "author", a),
                     "dc:creator", c),
             "authors", l) :
        a \in AuthorFieldCases, c \in CreatorCases, l \in AuthorsCases}

ContentCases ==
    {None, Some(<<>>), Some(<<[value |-> "c"]>>),
     Some(<<[value |-> "the content, longer"], [value |-> "more"]>>)}

\* entries over every combination of the summary-bearing fields
SummaryCases ==
    {WithOpt(WithOpt(WithOpt([title |-> "Summary"], "summary", x),
                     "description", d),
             "content", c) :
        x \in {None, Some(""), Some("the summary")},
        d \in {None, Some(""), Some("the description")},
        c \in ContentCases}

\* the entries drawn
EntryCases == EntryPool \cup ImageCases \cup AuthorCases \cup SummaryCases

AUrl == "https://feed.example/rss"

\* datetime.now() for the entry, and for fetched_at
EntryClock == <<BeforeMidnight, AfterMidnight>>

EntryInit ==
    /\ op = "" /\ arg = <<>> /\ obj = None /\ ret = None
    /\ fetched = <<>> /\ now = <<>> /\ effects = <<>>
    /\ parsed \in {Some([feed |-> [title |-> "The Feed"], entries |-> <<e>>]) :
                      e \in EntryCases}

\* the state after parse_feed(AUrl) came back with outcome
ParsedBy(name, a, outcome) ==
    /\ op' = name
    /\ arg' = a
    /\ obj' = None
    /\ ret' = outcome
    /\ fetched' = <<AUrl>>
    /\ now' = EntryClock
    /\ UNCHANGED <<parsed, effects>>

ParseZenn ==
    /\ op = ""
    /\ ParsedBy("ZennFeedParser.parse_feed", <<>>,
                Zenn_parse_feed(AUrl, Val(parsed), EntryClock))

ParseClassMethod ==
    /\ op = ""
    /\ ParsedBy("ClassMethodParser.parse_feed", <<>>,
                ClassMethod_parse_feed(AUrl, Val(parsed), EntryClock))

ParseGGen ==
    /\ op = ""
    /\ ParsedBy("GGenParser.parse_feed", <<>>,
                GGen_parse_feed(AUrl, Val(parsed), EntryClock))

ParseQiita ==
    /\ op = ""
    /\ ParsedBy("QiitaParser.parse_feed", <<>>,
                Qiita_parse_feed(AUrl, Val(parsed), EntryClock))

\* parse_feed(url, lang="en")
ParseGoogleCloud ==
    /\ op = ""
    /\ \E lang \in {None, Some("ja"), Some("en")} :
        ParsedBy("GoogleCloudParser.parse_feed", [lang |-> lang],
                 GoogleCloud_parse_feed(AUrl,
                                        IF lang = None THEN "en" ELSE Val(lang),
                                        Val(parsed), EntryClock))

\* parse_feed(url, lang="ja")
ParseAWS ==
    /\ op = ""
    /\ \E lang \in {None, Some("ja"), Some("en")} :
        ParsedBy("AWSParser.parse_feed", [lang |-> lang],
                 AWS_parse_feed(AUrl, IF lang = None THEN "ja" ELSE Val(lang),
                                Val(parsed), EntryClock))

ParseHuggingFace ==
    /\ op = ""
    /\ ParsedBy("HuggingFaceParser.parse_feed", <<>>,
                HuggingFace_parse_feed(AUrl, Val(parsed), EntryClock))

ParseDeepMind ==
    /\ op = ""
    /\ ParsedBy("DeepMindParser.parse_feed", <<>>,
                DeepMind_parse_feed(AUrl, Val(parsed), EntryClock))

ParseOpenAI ==
    /\ op = ""
    /\ ParsedBy("OpenAIParser.parse_feed", <<>>,
                OpenAI_parse_feed(AUrl, Val(parsed), EntryClock))

ParseGoogleAI ==
    /\ op = ""
    /\ ParsedBy("GoogleAIParser.parse_feed", <<>>,
                GoogleAI_parse_feed(AUrl, Val(parsed), EntryClock))

EntryNext ==
    \/ ParseZenn
    \/ ParseClassMethod
    \/ ParseGGen
    \/ ParseQiita
    \/ ParseGoogleCloud
    \/ ParseAWS
    \/ ParseHuggingFace
    \/ ParseDeepMind
    \/ ParseOpenAI
    \/ ParseGoogleAI

EntrySpec == EntryInit /\ [][EntryNext]_vars

----------------------------------------------------------------------------
(* Properties of the record model, checked under RecordSpec *)

\* C1: constructing a FeedResult from any article list, the empty one
\* included, and with any value passed as total_count, yields
\* total_count = len(articles): the passed value is discarded.
C1_TotalCountRecomputed ==
    op = "FeedResult" =>
        /\ Val(obj).articles = arg.articles
        /\ Val(obj).total_count = Len(arg.articles)

\* C1 happens: a non-empty list was passed with a count that is not its length
C1_Witness ==
    /\ op = "FeedResult"
    /\ Len(arg.articles) > 0
    /\ arg.total_count # Len(arg.articles)

\* C2: whatever the caller does to a FeedResult it holds (append to or remove
\* from its articles, assign its total_count), total_count = len(articles).
C2_TotalCountNeverDrifts ==
    (obj # None /\ Val(obj).cls = "FeedResult") =>
        Val(obj).total_count = Len(Val(obj).articles)

\* the text a summary s must be shortened to, from the claim's own numbers
C3_Expected(s, r) ==
    IF Len(s) > 150
    THEN /\ Len(r) = 153
         /\ SubSeq(r, 1, 150) = SubSeq(s, 1, 150)
         /\ SubSeq(r, 151, 153) = "..."
    ELSE r = s

\* C3: short_summary of an Article and of a ZennArticle is the first 150
\* characters of the summary followed by "..." when the summary is longer
\* than 150 characters, and the summary unchanged otherwise (150 included).
C3_ShortSummary ==
    (op = "short_summary" /\ Val(obj).cls = "ZennArticle" =>
        C3_Expected(Val(obj).summary, ret))
    /\ (op = "short_summary" /\ Val(obj).cls = "Article"
          /\ Val(obj).summary # None =>
        C3_Expected(Val(Val(obj).summary), ret))

\* C3 happens: a summary of 151 characters was shortened
C3_Witness ==
    /\ op = "short_summary"
    /\ Val(obj).cls = "Article"
    /\ Val(obj).summary # None
    /\ Len(Val(Val(obj).summary)) = 151
    /\ Len(ret) = 153

\* the dict d serialises the article a with no None in it
C4_DictOf(a, d) ==
    /\ DOMAIN d = {"title", "url", "publishedDate", "source", "summary",
                   "author", "tags", "imageUrl"}
    /\ \A k \in DOMAIN d : d[k] # None
    /\ d.title = Some(a.title) /\ d.url = Some(a.url)
    /\ d.publishedDate = Some(a.published_date)
    /\ d.source = Some(a.source)
    /\ d.summary = IF a.summary = None THEN Some("")
                   ELSE Some(Article_short_summary(a))
    /\ d.author = IF a.author = None THEN Some("") ELSE a.author
    /\ d.tags = IF a.tags = None THEN Some(<<>>) ELSE a.tags
    /\ d.imageUrl = IF a.image_url = None THEN Some("") ELSE a.image_url

\* C4: Article.to_dict has exactly the eight keys and never a None: an absent
\* summary, author or image_url becomes "" and absent tags become []; and
\* FeedResult.to_dict serialises every article this way, in order.
C4_ToDictNeverNull ==
    /\ (op = "to_dict" /\ Val(obj).cls = "Article" =>
            C4_DictOf(Val(obj), ret))
    /\ (op = "to_dict" /\ Val(obj).cls = "FeedResult" =>
            /\ Len(ret.articles) = Len(Val(obj).articles)
            /\ \A i \in 1..Len(ret.articles) :
                  C4_DictOf(Val(obj).articles[i], ret.articles[i]))

\* C4 happens: a FeedResult whose first article has no optional field and
\* whose second has them all was serialised
C4_Witness ==
    /\ op = "to_dict"
    /\ Val(obj).cls = "FeedResult"
    /\ Len(Val(obj).articles) = 2
    /\ Val(obj).articles[1].author = None
    /\ Val(obj).articles[1].tags = None
    /\ Val(obj).articles[2].author = Some("x")
    /\ Val(obj).articles[2].tags # None

----------------------------------------------------------------------------
(* Properties of the adapters, checked under FeedSpec *)

\* the articles of a value a get_feed call handed back
ArticlesOf(v) == IF v.cls = "list" THEN v.items ELSE v.articles

\* the call went as far as feedparser and came back with a value
Returned == op # "" /\ fetched # <<>> /\ ret.kind = "return"

\* C5: get_feed of zenn, classmethod, ggen, qiita, googlecloud, aws,
\* huggingface and deepmind returns a FeedResult exposing articles,
\* total_count and feed_url, and feed_url is exactly the URL that was handed
\* to feedparser.
C5_GetFeedReturnsFeedResult ==
    (/\ Returned
     /\ op \in {"zenn.get_feed", "classmethod.get_feed", "ggen.get_feed",
                "qiita.get_feed", "googlecloud.get_feed", "aws.get_feed",
                "huggingface.get_feed", "deepmind.get_feed"}) =>
        /\ HasAttr(ret.value, "articles")
        /\ HasAttr(ret.value, "total_count")
        /\ HasAttr(ret.value, "feed_url")
        /\ fetched = <<ret.value.feed_url>>

\* C6: every article any adapter produces, zenn included, has the fields
\* title, url, published_date and source, each of them a string.
C6_RequiredFields ==
    Returned =>
        \A i \in 1..Len(ArticlesOf(ret.value)) :
            \A k \in {"title", "url", "published_date", "source"} :
                /\ k \in DOMAIN ArticlesOf(ret.value)[i]
                /\ ArticlesOf(ret.value)[i][k] \in STRING

\* every article of the result has the source identifier id
C7_AllFrom(id) ==
    \A i \in 1..Len(ret.value.articles) : ret.value.articles[i].source = id

\* C7: googlecloud.get_feed(lang) gives every article the source
\* "googlecloud_" + lang and aws.get_feed(lang) the source "aws_" + lang, for
\* lang "ja" and "en"; a call without argument gives what the call with "ja"
\* gives; ggen.get_feed() gives every article the source "ggen".
C7_SourceIdentifiers ==
    /\ \A lang \in {"ja", "en"} :
          /\ (Returned /\ op = "googlecloud.get_feed"
                /\ arg.lang = Some(lang)) => C7_AllFrom("googlecloud_" \o lang)
          /\ (Returned /\ op = "aws.get_feed" /\ arg.lang = Some(lang)) =>
                C7_AllFrom("aws_" \o lang)
    /\ (op = "googlecloud.get_feed" /\ arg.lang = None) =>
          /\ Returned /\ C7_AllFrom("googlecloud_ja")
          /\ ret = GoogleCloud_get_feed(Some("ja"), Val(parsed), now).ret
          /\ fetched = GoogleCloud_get_feed(Some("ja"), Val(parsed), now).fetched
    /\ (op = "aws.get_feed" /\ arg.lang = None) =>
          /\ Returned /\ C7_AllFrom("aws_ja")
          /\ ret = AWS_get_feed(Some("ja"), Val(parsed), now).ret
          /\ fetched = AWS_get_feed(Some("ja"), Val(parsed), now).fetched
    /\ (Returned /\ op = "ggen.get_feed") => C7_AllFrom("ggen")

\* C7 happens: googlecloud.get_feed() without argument returned two articles
\* and aws.get_feed("en") and ggen.get_feed() are covered by the same formula
C7_Witness ==
    /\ op = "googlecloud.get_feed"
    /\ arg.lang = None
    /\ Returned
    /\ Len(ret.value.articles) = 2
    /\ ret.value.articles[2].source = "googlecloud_ja"

\* C8: googlecloud.get_feed(lang) and aws.get_feed(lang) with a lang other
\* than "ja" and "en" raise ValueError, and feedparser was not called.
C8_ValueErrorBeforeFetch ==
    (/\ op \in {"googlecloud.get_feed", "aws.get_feed"}
     /\ arg.lang \notin {None, Some("ja"), Some("en")}) =>
        /\ ret = Raise("ValueError")
        /\ fetched = <<>>
        /\ parsed = None

\* C8 happens: aws.get_feed("fr") raised
C8_Witness ==
    /\ op = "aws.get_feed"
    /\ arg.lang = Some("fr")
    /\ ret.kind = "raise"

\* C9: for every source, a feed without entries gives a FeedResult with
\* total_count = 0 and articles = [], and no error.
C9_EmptyFeed ==
    (op # "" /\ fetched # <<>> /\ Val(parsed).entries = <<>>) =>
        /\ ret.kind = "return"
        /\ ret.value.cls = "FeedResult"
        /\ ret.value.total_count = 0
        /\ ret.value.articles = <<>>

\* the field k of the entry is absent or None
C10_NoTime(entry, k) == k \notin DOMAIN entry \/ entry[k] = None

\* the entry has no usable date: published_parsed and updated_parsed are both
\* absent or None, or the tuple its date would come from (published_parsed,
\* updated_parsed when there is no published_parsed) cannot be converted
C10_NoUsableDate(entry) ==
    IF C10_NoTime(entry, "published_parsed")
    THEN \/ C10_NoTime(entry, "updated_parsed")
         \/ TryDatetime(Val(entry["updated_parsed"])) = None
    ELSE TryDatetime(Val(entry["published_parsed"])) = None

\* the one failure that has nothing to do with dates: the thumbnail sizes of
\* the Google AI adapter
C10_ThumbnailFailure ==
    /\ op = "googleai.get_feed"
    /\ \E i \in 1..Len(Val(parsed).entries) :
          LargestRaises(Val(parsed).entries[i])

\* C10: in every adapter, entries without a usable date do not make the call
\* fail: each such entry gets the date of the clock at its turn, formatted
\* as year, month, day, and every entry of the feed has its article.
C10_DateFallback ==
    (op # "" /\ fetched # <<>> /\ ~C10_ThumbnailFailure) =>
        /\ ret.kind = "return"
        /\ Len(ArticlesOf(ret.value)) = Len(Val(parsed).entries)
        /\ \A i \in 1..Len(Val(parsed).entries) :
              C10_NoUsableDate(Val(parsed).entries[i]) =>
                  ArticlesOf(ret.value)[i].published_date = Strftime(now[i])

\* C10 happens: aws.get_feed on a feed whose first entry has month 13 and
\* whose second entry is dated; the first got the date of the clock, the
\* second its own
C10_Witness ==
    /\ op = "aws.get_feed"
    /\ Returned
    /\ Len(Val(parsed).entries) = 2
    /\ Get(Val(parsed).entries[1], "title", "") = "BadMonth"
    /\ now[1] = BeforeMidnight
    /\ ret.value.articles[1].published_date = "2024nen12gatsu31nichi"
    /\ ret.value.articles[2].published_date = "2024nen02gatsu29nichi"

\* the terms of the entry's tags field
C11_TagField(entry) ==
    LET tags == Get(entry, "tags", <<>>)
    IN  {tags[j].term : j \in {k \in 1..Len(tags) : "term" \in DOMAIN tags[k]}}

\* the terms of the entry's categories field, strings and term dicts alike
C11_CategoryField(entry) ==
    LET cats == Get(entry, "categories", <<>>)
    IN  {cats[j].str : j \in {k \in 1..Len(cats) : "str" \in DOMAIN cats[k]}}
          \cup
        {cats[j].term : j \in {k \in 1..Len(cats) : "term" \in DOMAIN cats[k]}}

\* how many times x occurs in the sequence q
C11_Count(q, x) == Cardinality({j \in 1..Len(q) : q[j] = x})

\* C11: in aws, googlecloud, qiita, huggingface, deepmind, openai and
\* googleai, a term that an entry has in its tags and in its categories
\* occurs exactly once in the tags of the entry's article.
C11_SharedTermOnce ==
    (/\ Returned
     /\ op \in {"aws.get_feed", "googlecloud.get_feed", "qiita.get_feed",
                "huggingface.get_feed", "deepmind.get_feed",
                "openai.get_feed", "googleai.get_feed"}) =>
        \A i \in 1..Len(Val(parsed).entries) :
            \A x \in C11_TagField(Val(parsed).entries[i])
                       \cap C11_CategoryField(Val(parsed).entries[i]) :
                C11_Count(Val(ret.value.articles[i].tags), x) = 1

----------------------------------------------------------------------------
(* Properties of the parsers on one entry, checked under EntrySpec *)

\* the entry that was parsed and the article made of it
TheEntry == Val(parsed).entries[1]

TheArticle == ArticlesOf(ret.value)[1]

\* parse_feed came back with a value
Parsed == op # "" /\ ret.kind = "return"

\* what each step of the image search finds on its own, in the order of the
\* adapter: thumbnail, media_content (aws only), enclosure, <img> in the
\* summary of the article
C12_Thumbnail ==
    IF op = "GoogleAIParser.parse_feed" THEN LargestThumbnail(TheEntry)
    ELSE FirstThumbnail(TheEntry)

C12_Steps ==
    <<C12_Thumbnail,
      IF op = "AWSParser.parse_feed"
      THEN FirstImage(None, Get(TheEntry, "media_content", <<>>), "url")
      ELSE None,
      FirstImage(None, Get(TheEntry, "enclosures", <<>>), "href"),
      IF Val(TheArticle.summary) = "" THEN None
      ELSE IF op = "GoogleAIParser.parse_feed"
      THEN GoogleAI_ImageFromText(None, Val(TheArticle.summary))
      ELSE ImgSrc(Val(TheArticle.summary))>>

\* the find of the first step that found a URL, None when none did
C12_FirstHit(steps) ==
    LET hits == {i \in 1..Len(steps) : TruthyStr(steps[i])}
    IN  IF hits = {} THEN None
        ELSE steps[CHOOSE i \in hits : \A k \in hits : i <= k]

\* C12: in aws, googlecloud, openai and googleai the image is the find of
\* the first step that found one, in the order thumbnail, media_content,
\* enclosure, <img> pattern: a thumbnail with a URL wins over an enclosure
\* image and over an <img> in the summary, and image_url is None when no
\* step finds anything.
C12_ImageWaterfall ==
    (/\ Parsed
     /\ op \in {"AWSParser.parse_feed", "GoogleCloudParser.parse_feed",
                "OpenAIParser.parse_feed", "GoogleAIParser.parse_feed"}) =>
        /\ TheArticle.image_url = C12_FirstHit(C12_Steps)
        /\ TruthyStr(C12_Thumbnail) => TheArticle.image_url = C12_Thumbnail

\* C12 happens: an entry with a thumbnail, an enclosure image and an <img>
\* in its summary went through the aws parser and got its thumbnail
C12_Witness ==
    /\ Parsed
    /\ op = "AWSParser.parse_feed"
    /\ TruthyStr(C12_Steps[1])
    /\ TruthyStr(C12_Steps[3])
    /\ TruthyStr(C12_Steps[4])
    /\ TheArticle.image_url = Some("https://i/t1.png")

----------------------------------------------------------------------------
(* Further properties of the adapters, checked under FeedSpec *)

\* the URL the adapter gives the article of the entry
C13_Link(entry) ==
    IF op = "googleai.get_feed"
    THEN Get(entry, "feedburner_origlink", Get(entry, "link", ""))
    ELSE Get(entry, "link", "")

\* C13: for every adapter and every feed, there are as many articles as
\* entries and the i-th article is the one of the i-th entry (its title and
\* its link), whatever fields the entries lack.
C13_OneToOne ==
    Returned =>
        /\ Len(ArticlesOf(ret.value)) = Len(Val(parsed).entries)
        /\ \A i \in 1..Len(Val(parsed).entries) :
              /\ ArticlesOf(ret.value)[i].title
                    = Get(Val(parsed).entries[i], "title", "")
              /\ ArticlesOf(ret.value)[i].url
                    = C13_Link(Val(parsed).entries[i])

\* C13 happens: classmethod parsed a feed whose first entry has no field the
\* adapter reads and whose second has them all
C13_Witness ==
    /\ Returned
    /\ op = "classmethod.get_feed"
    /\ Len(Val(parsed).entries) = 2
    /\ DOMAIN Val(parsed).entries[1] = {"id"}
    /\ Val(parsed).entries[2] = FullEntry
    /\ ret.value.articles[1].title = ""
    /\ ret.value.articles[2].title = "Full"

\* the title each adapter falls back to
C14_Default ==
    CASE op = "classmethod.get_feed" -> "ClassMethod Developers IO"
      [] op = "ggen.get_feed" -> "G-GEN Tech Blog"
      [] op = "qiita.get_feed" -> "Qiita"
      [] op \in {"googlecloud.get_feed", "googlecloud.get_feed_by_url"} ->
            "Google Cloud Blog"
      [] op \in {"aws.get_feed", "aws.get_feed_by_url"} -> "AWS Blog"
      [] op = "huggingface.get_feed" -> "Hugging Face Blog"
      [] op = "deepmind.get_feed" -> "DeepMind Blog"
      [] op = "openai.get_feed" -> "OpenAI Blog"
      [] op = "googleai.get_feed" -> "Google AI Blog"

\* the language each feed of the two language-keyed sites is written in
C14_LanguageOf(url) ==
    IF url \in {AWS_FEED_URLS["ja"], GoogleCloud_FEED_URLS["ja"]}
    THEN "ja" ELSE "en"

\* the suffix for the feed that was fetched
C14_Suffix ==
    IF C14_LanguageOf(fetched[1]) = "ja" THEN " (JA)" ELSE " (EN)"

\* C14: feed_title is the feed's own title, the adapter's default when the
\* feed has none; aws and googlecloud append " (JA)" or " (EN)", the language
\* of the feed that was fetched, in get_feed(lang) and get_feed_by_url(url).
\* (Stated for the adapters whose result has a feed_title.)
C14_FeedTitle ==
    (Returned /\ op # "zenn.get_feed") =>
        ret.value.feed_title
          = Get(Val(parsed).feed, "title", C14_Default)
              \o (IF op \in {"googlecloud.get_feed", "aws.get_feed",
                             "googlecloud.get_feed_by_url",
                             "aws.get_feed_by_url"}
                  THEN C14_Suffix ELSE "")

----------------------------------------------------------------------------
(* tumu.webscraper.anthropicnews                                           *)
(*                                                                         *)
(* A page is what BeautifulSoup finds in response.text: the news index is  *)
(* the sequence of its anchors, each with an Optional href; an article     *)
(* page has an Optional h1 of class h2 and an Optional timestamp div, each *)
(* the text of the element.  The outcome of requests.get followed by       *)
(* raise_for_status is Return(page) or Raise(exception).  The messages     *)
(* of the source are written in ASCII: "shutoku era-" (fetch error),       *)
(* "taitoru fumei" (title unknown), "hizuke fumei" (date unknown); the     *)
(* black circle and the bullet that end the date are "@" and "*".          *)

\* s.endswith(suffix)
EndsWith(s, suffix) == Slice(s, Len(s) - Len(suffix) + 1, Len(s)) = suffix

\* s.split(ch), ch one character
Split(s, ch) ==
    LET cuts == {k \in 1..Len(s) : Char(s, k) = ch}
        n == Cardinality(cuts)
        cut(i) == IF i = 0 THEN 0
                  ELSE IF i = n + 1 THEN Len(s) + 1
                  ELSE CHOOSE c \in cuts :
                           Cardinality({d \in cuts : d < c}) = i - 1
    IN  [i \in 1..(n + 1) |-> Slice(s, cut(i - 1) + 1, cut(i) - 1)]

\* s.strip() for blanks
Strip(s) ==
    LET inked == {k \in 1..Len(s) : Char(s, k) # " "}
    IN  IF inked = {} THEN ""
        ELSE SubSeq(s, CHOOSE a \in inked : \A b \in inked : a <= b,
                       CHOOSE a \in inked : \A b \in inked : a >= b)

\* "/".join(segments)
RECURSIVE JoinSlash(_)
JoinSlash(segments) ==
    IF segments = <<>> THEN ""
    ELSE IF Len(segments) = 1 THEN segments[1]
    ELSE JoinSlash(SubSeq(segments, 1, Len(segments) - 1))
           \o "/" \o segments[Len(segments)]

\* the loop of urljoin over the segments from i on: ".." pops, "." is skipped
RECURSIVE ResolvedPath(_, _, _)
ResolvedPath(segments, i, resolved) ==
    IF i > Len(segments) THEN resolved
    ELSE ResolvedPath(segments, i + 1,
           IF segments[i] = ".."
           THEN SubSeq(resolved, 1, Len(resolved) - 1)
           ELSE IF segments[i] = "." THEN resolved
           ELSE Append(resolved, segments[i]))

\* the segments urljoin resolves for a path against a base without path:
\* those of an absolute path as they are, those of a relative path after
\* the base's empty one and without empty segments in the middle
JoinedSegments(path) ==
    IF Char(path, 1) = "/" THEN Split(path, "/")
    ELSE LET all == <<"">> \o Split(path, "/")
             middle == SelectSeq(SubSeq(all, 2, Len(all) - 1),
                                 LAMBDA seg : seg # "")
         IN  <<"">> \o middle \o <<all[Len(all)]>>

AnthropicBaseUrl == "https://www.anthropic.com"

AnthropicNewsUrl == "https://www.anthropic.com/news"

\* urljoin(base_url, href) for a non-empty href without query or fragment:
\* a URL with its own scheme and host is returned as it is, a path is
\* resolved and put after the base's scheme and host
UrlJoin(href) ==
    IF StartsWith(href, "https://") \/ StartsWith(href, "http://") THEN href
    ELSE LET segments == JoinedSegments(href)
             resolved == ResolvedPath(segments, 1, <<>>)
                           \o (IF segments[Len(segments)] \in {".", ".."}
                               THEN <<"">> ELSE <<>>)
             joined == JoinSlash(resolved)
             path == IF joined = "" THEN "/" ELSE joined
         IN  AnthropicBaseUrl
               \o (IF Char(path, 1) # "/" THEN "/" ELSE "") \o path

\* find_all('a', href=lambda x: x and '/news/' in x), then the loop that
\* keeps the joined URLs not ending with /news
NewsUrls(page) ==
    LET links == SelectSeq(page, LAMBDA a :
                     TruthyStr(a.href) /\ Contains(Val(a.href), "/news/"))
        joined == [i \in 1..Len(links) |-> UrlJoin(Val(links[i].href))]
    IN  SelectSeq(joined, LAMBDA u : ~EndsWith(u, "/news"))

\* the sequences that hold each element of the set S once
Orderings(S) ==
    {q \in [1..Cardinality(S) -> S] : \A x \in S : \E i \in DOMAIN q : q[i] = x}

\* get_anthropic_news_urls(): list(set(urls)) has no defined order, so every
\* order is a possible result; [] when anything raised
Anthropic_get_anthropic_news_urls(response) ==
    IF response.kind = "raise" THEN {Return(PyList(<<>>))}
    ELSE LET urls == NewsUrls(response.value)
         IN  {Return(PyList(q)) :
                 q \in Orderings({urls[i] : i \in DOMAIN urls})}

TitleUnknown == "taitoru fumei"

DateUnknown == "hizuke fumei"

FetchError == "shutoku era-"

\* what get_article_details raises to its caller instead of answering
ArticleDetailsOnError_Raises(url) == Raise("Exception")

\* the except branch of get_article_details
ArticleDetailsOnError(url) ==
    Return([url |-> url, title |-> FetchError, date |-> FetchError])

\* the date of the timestamp text: what stands before the black circle if
\* there is one, before the bullet otherwise
TimestampDate(date_text) ==
    IF Contains(date_text, "@") THEN Strip(Split(date_text, "@")[1])
    ELSE Strip(Split(date_text, "*")[1])

Anthropic_get_article_details(url, response) ==
    IF response.kind = "raise" THEN ArticleDetailsOnError(url)
    ELSE LET page == response.value
         IN  Return([url |-> url,
                     title |-> IF page.h1 # None THEN Strip(Val(page.h1))
                               ELSE TitleUnknown,
                     date |-> IF page.timestamp # None
                              THEN TimestampDate(Strip(Val(page.timestamp)))
                              ELSE DateUnknown])

\* time.sleep(0.2), called when n requests had been made
Paused(n) == [kind |-> "sleep", seconds |-> "0.2", requests |-> n]

\* q[:n] of a list, n >= 0
Take(q, n) == SubSeq(q, 1, IF n > Len(q) THEN Len(q) ELSE n)

\* urls[:max_articles] if max_articles else urls
UrlsToProcess(urls, max_articles) ==
    IF max_articles = None \/ max_articles = Some(0) THEN urls
    ELSE IF Val(max_articles) > 0 THEN Take(urls, Val(max_articles))
    ELSE IF Len(urls) + Val(max_articles) > 0
    THEN Take(urls, Len(urls) + Val(max_articles))
    ELSE <<>>

\* what get_article_details does on each request of the loop:
\* responses[i] is what the site does on the i-th request
DetailsOf(urls_to_process, responses) ==
    [i \in 1..Len(urls_to_process) |->
        Anthropic_get_article_details(urls_to_process[i], responses[i])]

\* the loop of get_all_article_details: n requests are made, with a pause
\* of 0.2 s after each but the last of urls_to_process; an exception of
\* get_article_details would end the loop at its request
ArticleDetailsLoop(urls_to_process, details, failed) ==
    IF failed = {}
    THEN [ret |-> Return(PyList([i \in DOMAIN details |-> details[i].value])),
          fetched |-> urls_to_process,
          effects |-> [i \in 1..(Len(urls_to_process) - 1) |-> Paused(i)]]
    ELSE [ret |-> details[CHOOSE i \in failed : \A k \in failed : i <= k],
          fetched |-> SubSeq(urls_to_process, 1,
                             CHOOSE i \in failed : \A k \in failed : i <= k),
          effects |-> [i \in 1..((CHOOSE i \in failed :
                                     \A k \in failed : i <= k) - 1) |->
                          Paused(i)]]

Raised(outcomes) == {i \in DOMAIN outcomes : outcomes[i].kind = "raise"}

\* get_all_article_details(urls, max_articles=None)
Anthropic_get_all_article_details(urls, max_articles, responses) ==
    ArticleDetailsLoop(UrlsToProcess(urls, max_articles),
                       DetailsOf(UrlsToProcess(urls, max_articles), responses),
                       Raised(DetailsOf(UrlsToProcess(urls, max_articles),
                                        responses)))

----------------------------------------------------------------------------
(* The Anthropic scraper: one call per behaviour                            *)

MaxAnchors == 2

HrefPool ==
    {None, Some(""), Some("/news/article1"), Some("/news/article2"),
     Some("/news"), Some("/news/"), Some("/careers"),
     Some("https://www.anthropic.com/news/article1"),
     Some("/news/archive/news"), Some("/news/../careers"),
     Some("research/news/claude")}

IndexPages == SeqsUpTo([href : HrefPool], MaxAnchors)

ArticlePages ==
    [h1 : {None, Some("Test Title"), Some(" Spaced ")},
     timestamp : {None, Some("2024nen1gatsu1nichi @ 5fun"),
                  Some("Mar 4, 2024 * 5 min read"), Some("Mar 4, 2024")}]

\* requests.get and raise_for_status: a page, or one of the exceptions
Responses(pages) ==
    {Return(page) : page \in pages}
        \cup {Raise("ConnectionError"), Raise("Timeout"), Raise("HTTPError")}

ArticleUrlPool ==
    {"https://example.com", "https://www.anthropic.com/news/article1"}

Requested(name, a, url, response, outcome) ==
    /\ op' = name /\ arg' = a /\ obj' = None /\ ret' = outcome
    /\ fetched' = <<url>>
    /\ parsed' = Some(response)
    /\ now' = <<>>
    /\ UNCHANGED effects

AnthropicInit == RecordInit

CallNewsUrls ==
    /\ op = ""
    /\ \E response \in Responses(IndexPages) :
       \E outcome \in Anthropic_get_anthropic_news_urls(response) :
          Requested("get_anthropic_news_urls", <<>>, AnthropicNewsUrl,
                    response, outcome)

CallArticleDetails ==
    /\ op = ""
    /\ \E url \in ArticleUrlPool, response \in Responses(ArticlePages) :
          Requested("get_article_details", [url |-> url], url, response,
                    Anthropic_get_article_details(url, response))

\* most URLs handed to get_all_article_details
MaxUrls == 3

MaxArticlesPool == {None, Some(0), Some(1), Some(2), Some(5), Some(-1)}

\* what the site does on one request of the loop
LoopResponses ==
    {Return([h1 |-> Some("Test Title"), timestamp |-> None]),
     Return([h1 |-> None, timestamp |-> Some("Mar 4, 2024 * 5 min read")]),
     Raise("Timeout")}

\* the site answers every request the call can make
CallAllArticleDetails ==
    /\ op = ""
    /\ \E urls \in SeqsUpTo(ArticleUrlPool, MaxUrls),
          max_articles \in MaxArticlesPool :
       \E responses \in [1..Len(urls) -> LoopResponses] :
          LET out == Anthropic_get_all_article_details(urls, max_articles,
                                                       responses)
          IN  /\ op' = "get_all_article_details"
              /\ arg' = [urls |-> urls, max_articles |-> max_articles]
              /\ obj' = None
              /\ ret' = out.ret
              /\ fetched' = out.fetched
              /\ parsed' = Some([kind |-> "site", value |-> responses])
              /\ now' = <<>>
              /\ effects' = out.effects

AnthropicNext ==
    \/ CallNewsUrls
    \/ CallArticleDetails
    \/ CallAllArticleDetails

AnthropicSpec == AnthropicInit /\ [][AnthropicNext]_vars

----------------------------------------------------------------------------
(* Properties of the Anthropic scraper, checked under AnthropicSpec        *)

\* the call of get_anthropic_news_urls has answered from a page
C15_Listed ==
    /\ op = "get_anthropic_news_urls"
    /\ Val(parsed).kind = "return"
    /\ ret.kind = "return"

\* C15: for every set of anchors on the page, get_anthropic_news_urls
\* returns a list without duplicate in which every URL is absolute, contains
\* "/news/" and does not end with "/news".
C15_NewsUrls ==
    C15_Listed =>
        LET urls == ret.value.items
        IN  /\ \A i, j \in DOMAIN urls : urls[i] = urls[j] => i = j
            /\ \A i \in DOMAIN urls :
                  /\ StartsWith(urls[i], "https://")
                        \/ StartsWith(urls[i], "http://")
                  /\ Contains(urls[i], "/news/")
                  /\ ~EndsWith(urls[i], "/news")

\* C16: when the HTTP request raises, the scraper functions do not raise:
\* get_anthropic_news_urls returns [] and get_article_details(url) returns
\* the input url with the fetch-error text as title and as date.
C16_RequestFailed ==
    (op # "" /\ Val(parsed).kind = "raise") =>
        /\ op = "get_anthropic_news_urls" => ret = Return(PyList(<<>>))
        /\ op = "get_article_details" =>
              ret = Return([url |-> arg.url, title |-> FetchError,
                            date |-> FetchError])

C16_Witness ==
    /\ op = "get_article_details"
    /\ parsed = Some(Raise("Timeout"))
    /\ ret.kind = "return"
    /\ ret.value.url = "https://example.com"

\* the number of URLs the call is to process
C28_Processed ==
    IF arg.max_articles = None \/ Val(arg.max_articles) > Len(arg.urls)
    THEN Len(arg.urls) ELSE Val(arg.max_articles)

\* C28: get_all_article_details(urls, max_articles) returns one detail
\* record per processed URL, in input order; it processes every URL when
\* max_articles is None and the first max_articles URLs at most for every
\* integer max_articles >= 0; it pauses between two consecutive requests
\* and not after the last one.
C28_OnePerUrl ==
    (/\ op = "get_all_article_details"
     /\ arg.max_articles = None \/ Val(arg.max_articles) >= 0) =>
        /\ ret.kind = "return"
        /\ Len(ret.value.items) = C28_Processed
        /\ \A i \in 1..Len(ret.value.items) :
               ret.value.items[i].url = arg.urls[i]
        /\ fetched = SubSeq(arg.urls, 1, C28_Processed)
        /\ effects = [i \in 1..(C28_Processed - 1) |-> Paused(i)]

----------------------------------------------------------------------------
(* tumu.webscraper.kabutan                                                 *)
(*                                                                         *)
(* A page is what BeautifulSoup finds in response.text: an Optional table  *)
(* of class stock_table with an Optional tbody, the sequence of its rows;  *)
(* a row is the sequence of its td and th cells.  A cell has its tag name, *)
(* an Optional class, its text, and says whether the text stands in an a   *)
(* element.  The full-width dash of the site is written "_", and the ten   *)
(* column names are written in Latin letters.                              *)

Td(text) == [name |-> "td", class |-> None, a |-> FALSE, text |-> text]

Th(text) == [name |-> "th", class |-> None, a |-> FALSE, text |-> text]

TdClass(class, text) ==
    [name |-> "td", class |-> Some(class), a |-> FALSE, text |-> text]

TdLink(text) == [name |-> "td", class |-> None, a |-> TRUE, text |-> text]

\* str(cell): the markup of the cell
CellMarkup(cell) ==
    "<" \o cell.name
        \o (IF cell.class = None THEN ""
            ELSE " class=" \o Quote \o Val(cell.class) \o Quote)
        \o ">"
        \o (IF cell.a THEN "<a href=" \o Quote \o "#" \o Quote \o ">"
                             \o cell.text \o "</a>"
            ELSE cell.text)
        \o "</" \o cell.name \o ">"

\* "".join(segments)
RECURSIVE Concat(_)
Concat(segments) ==
    IF segments = <<>> THEN ""
    ELSE Concat(SubSeq(segments, 1, Len(segments) - 1))
           \o segments[Len(segments)]

\* s.replace(ch, ''), ch one character
Without(s, ch) == Concat(Split(s, ch))

\* s.isdigit() for ASCII text
IsDigits(s) == s # "" /\ \A k \in 1..Len(s) : IsDigit(Char(s, k))

NA == "N/A"

Dash == "_"

\* the price: the text of the first td without link from the sixth cell on
KabutanPrice(cells) ==
    LET at == {i \in 6..Len(cells) : cells[i].name = "td" /\ ~cells[i].a}
    IN  IF at = {} THEN NA
        ELSE Strip(cells[CHOOSE i \in at : \A j \in at : i <= j].text)

\* a number, or the dash that stands for none
NumberOrDash(t) == IsDigits(Without(t, ".")) \/ t = Dash

\* the branch of the loop over the cells that a cell takes, on the six
\* values found so far: t is the cell's text, change says that the first
\* condition holds for the cell, number that the text is a number or the dash
KabutanBranch(found, t, change, number) ==
    IF change
    THEN IF found.change_value = NA
         THEN [found EXCEPT !.change_value = t]
         ELSE IF found.change_percent = NA /\ Contains(t, "%")
         THEN [found EXCEPT !.change_percent = t]
         ELSE found
    ELSE IF IsDigits(Without(t, ",")) /\ Contains(t, ",")
    THEN [found EXCEPT !.volume = Without(t, ",")]
    ELSE IF number /\ found.per = NA
    THEN [found EXCEPT !.per = t]
    ELSE IF number /\ found.pbr = NA
    THEN [found EXCEPT !.pbr = t]
    ELSE IF number /\ found.pbr # NA /\ found.yield_value = NA
    THEN [found EXCEPT !.yield_value = t]
    ELSE found

\* the first condition of the loop: up or down in the cell's markup, a
\* sign at the start of the text, or the text 0
IsChange(markup, t) ==
    \/ Contains(markup, "up") \/ Contains(markup, "down")
    \/ StartsWith(t, "+") \/ StartsWith(t, "-") \/ t = "0"

\* one round of the loop over the cells from the sixth on
KabutanCell(cell, found) ==
    KabutanBranch(found, Strip(cell.text),
                  IsChange(CellMarkup(cell), Strip(cell.text)),
                  NumberOrDash(Strip(cell.text)))

RECURSIVE KabutanCells(_, _, _)
KabutanCells(cells, i, found) ==
    IF i > Len(cells) THEN found
    ELSE KabutanCells(cells, i + 1, KabutanCell(cells[i], found))

\* the body of the loop over the rows: the row's ten values, None when the
\* row raised (a row without cells) and was skipped
KabutanRow(cells) ==
    IF cells = <<>> THEN None
    ELSE LET found == KabutanCells(cells, 6,
                        [change_value |-> NA, change_percent |-> NA,
                         volume |-> NA, per |-> NA, pbr |-> NA,
                         yield_value |-> NA])
         IN  Some(<<IF cells[1].a THEN Strip(cells[1].text) ELSE NA,
                    IF Len(cells) > 1 THEN Strip(cells[2].text) ELSE NA,
                    IF Len(cells) > 2 THEN Strip(cells[3].text) ELSE NA,
                    KabutanPrice(cells),
                    found.change_value, found.change_percent, found.volume,
                    found.per, found.pbr, found.yield_value>>)

\* the rows that were not skipped, in order
KabutanRows(rows) ==
    LET made == [i \in 1..Len(rows) |-> KabutanRow(rows[i])]
        kept == SelectSeq(made, LAMBDA r : r # None)
    IN  [i \in 1..Len(kept) |-> Val(kept[i])]

\* None handed back to the caller
PyNone == [cls |-> "NoneType"]

\* scrape_kabutan_volume_ranking(url): the request is not guarded, and a
\* table without tbody makes table.find('tbody').find_all raise
Kabutan_scrape_kabutan_volume_ranking(response) ==
    IF response.kind = "raise" THEN response
    ELSE IF response.value.table = None THEN Return(PyNone)
    ELSE IF Val(response.value.table).tbody = None
    THEN Raise("AttributeError")
    ELSE Return(PyList(KabutanRows(Val(Val(response.value.table).tbody))))

\* range(1, 80)
LastPage == 79

\* str(i) for a page number
PageNumber(i) ==
    IF i < 10 THEN DigitChar(i) ELSE DigitChar(i \div 10) \o DigitChar(i % 10)

RankingUrl(i) ==
    "https://kabutan.jp/warning/volume_ranking?market=0&capitalization=-1"
        \o "&dispmode=normal&stc=&stm=0&page=" \o PageNumber(i)

ColumnNames ==
    <<"ko-do", "meigara-mei", "shijou", "kabuka", "zenjitsuhi(ne)",
      "zenjitsuhi(%)", "dekidaka", "PER", "PBR", "rimawari">>

\* pd.DataFrame(rows, columns=columns)
DataFrame(rows, columns) ==
    [cls |-> "DataFrame", columns |-> columns, rows |-> rows]

\* the site answers page i with its i-th page, and with one and the same
\* page past the end of its ranking
SitePage(site, i) ==
    IF i <= Len(site.pages) THEN site.pages[i] ELSE site.beyond

\* time.sleep, called when n requests had been made; the duration is a
\* random number of tenths of a second from 0.5 to 2.0
Slept(n) == [kind |-> "sleep", requests |-> n]

\* what scraping each of the pages 1..LastPage gives
ScrapedPages(site) ==
    [i \in 1..LastPage |->
        Kabutan_scrape_kabutan_volume_ranking(SitePage(site, i))]

\* the lists of the pages a..b, added up in page order
RECURSIVE RowsOf(_, _, _)
RowsOf(scraped, a, b) ==
    IF a > b THEN <<>>
    ELSE IF a = b THEN scraped[a].value.items
    ELSE RowsOf(scraped, a, (a + b) \div 2)
           \o RowsOf(scraped, ((a + b) \div 2) + 1, b)

\* the pages at which the loop ends early: scraping raises, or returns
\* None, which cannot be added to the list
Stops(scraped) ==
    {i \in DOMAIN scraped :
        \/ scraped[i].kind = "raise"
        \/ scraped[i].value = PyNone}

\* a loop that ends at page stop and hands back the rows it has
StoppedAt_WithRows(scraped, stop) ==
    [ret |-> Return(DataFrame(RowsOf(scraped, 1, stop - 1), ColumnNames)),
     fetched |-> [i \in 1..stop |-> RankingUrl(i)],
     effects |-> [i \in 1..(stop - 1) |-> Slept(i)]]

\* the loop that ends at page stop
StoppedAt(scraped, stop) ==
    [ret |-> IF scraped[stop].kind = "raise" THEN scraped[stop]
             ELSE Raise("TypeError"),
     fetched |-> [i \in 1..stop |-> RankingUrl(i)],
     effects |-> [i \in 1..(stop - 1) |-> Slept(i)]]

\* the loop over the pages 1..LastPage and the DataFrame made of the rows
StockVolumes(scraped, stops) ==
    IF stops # {}
    THEN StoppedAt(scraped, CHOOSE i \in stops : \A j \in stops : i <= j)
    ELSE [ret |-> Return(DataFrame(RowsOf(scraped, 1, LastPage),
                                   ColumnNames)),
          fetched |-> [i \in 1..LastPage |-> RankingUrl(i)],
          effects |-> [i \in 1..LastPage |-> Slept(i)]]

\* stock_volume_get(): the function takes no argument, so a call with one
\* raises before the body runs
Kabutan_stock_volume_get(args, site) ==
    IF args # <<>>
    THEN [ret |-> Raise("TypeError"), fetched |-> <<>>, effects |-> <<>>]
    ELSE StockVolumes(ScrapedPages(site), Stops(ScrapedPages(site)))

----------------------------------------------------------------------------
(* The Kabutan scraper: one call per behaviour                              *)

MaxRows == 1

MaxPages == 2

\* a row of the ranking: code link, name, market, two cells that are not
\* read, price, change value, change %, volume, PER, PBR, yield
RankingRow(price, change, volume, per, pbr, yield) ==
    <<TdLink("7203"), Th("Toyota"), Td("Prime"), Td(""), Td(""), Td(price)>>
        \o change
        \o <<Td(volume), Td(per), Td(pbr), Td(yield)>>

ChangePool ==
    {<<TdClass("up", "+50"), TdClass("up", "+2.04%")>>,
     <<TdClass("down", "-100"), TdClass("down", "-0.76%")>>,
     <<Td("0"), Td("0%")>>}

RankingRows ==
    {RankingRow(price, change, volume, per, pbr, yield) :
        price \in {"2,500", "850"}, change \in ChangePool,
        volume \in {"15,234,500", "500"}, per \in {"12.5", Dash},
        pbr \in {"1.2", Dash}, yield \in {"2.5", Dash}}

RowPool ==
    RankingRows
        \cup {<<>>, <<Td("error row")>>,
              <<TdLink("7203"), Th("a good row"), Td("Prime"), Td(""),
                Td(""), Td("2,500")>>}

Table(rows) == [table |-> Some([tbody |-> Some(rows)])]

NoTable == [table |-> None]

KabutanPages ==
    {NoTable, [table |-> Some([tbody |-> None])]}
        \cup {Table(rows) : rows \in SeqsUpTo(RowPool, MaxRows)}

FirstRow ==
    RankingRow("2,500", <<TdClass("up", "+50"), TdClass("up", "+2.04%")>>,
               "15,234,500", "12.5", "1.2", "2.5")

SecondRow ==
    RankingRow("13,000",
               <<TdClass("down", "-100"), TdClass("down", "-0.76%")>>,
               "8,500,000", "15.3", "2.1", Dash)

SitePagePool ==
    {Return(Table(<<FirstRow, SecondRow>>)), Return(Table(<<SecondRow>>)),
     Return(Table(<<>>)), Return(NoTable), Raise("ConnectionError")}

Sites ==
    [pages : SeqsUpTo(SitePagePool, MaxPages),
     beyond : {Return(Table(<<>>)), Return(NoTable)}]

KabutanInit == RecordInit

CallScrape ==
    /\ op = ""
    /\ \E response \in Responses(KabutanPages) :
          /\ op' = "scrape_kabutan_volume_ranking"
          /\ arg' = [url |-> RankingUrl(1)]
          /\ obj' = None
          /\ ret' = Kabutan_scrape_kabutan_volume_ranking(response)
          /\ fetched' = <<RankingUrl(1)>>
          /\ parsed' = Some(response)
          /\ now' = <<>>
          /\ effects' = <<>>

CallStockVolumeGet ==
    /\ op = ""
    /\ \E args \in {<<>>, [page |-> 1], [page |-> 3]}, site \in Sites :
          LET out == Kabutan_stock_volume_get(args, site)
          IN  /\ op' = "stock_volume_get"
              /\ arg' = args
              /\ obj' = None
              /\ ret' = out.ret
              /\ fetched' = out.fetched
              /\ parsed' = Some(site)
              /\ now' = IF args = <<>> THEN <<BeforeMidnight>> ELSE <<>>
              /\ effects' = out.effects

KabutanNext ==
    \/ CallScrape
    \/ CallStockVolumeGet

KabutanSpec == KabutanInit /\ [][KabutanNext]_vars

----------------------------------------------------------------------------
(* Properties of the Kabutan scraper, checked under KabutanSpec            *)

\* the text of the cells of a ranking row that the record is made of, the
\* volume without its commas
C17_Expected(cells) ==
    <<cells[1].text, cells[2].text, cells[3].text, cells[6].text,
      cells[7].text, cells[8].text, Without(cells[9].text, ","),
      cells[10].text, cells[11].text, cells[12].text>>

\* C17: scrape_kabutan_volume_ranking returns, for every row laid out as
\* code link, name, market, two more cells, price, change value, change %,
\* volume, PER, PBR, yield, one record of the ten values in that order, each
\* the text of its own cell (the volume without commas, "0" and the dash
\* kept), and returns None when the page has no table of class stock_table.
C17_Records ==
    (op = "scrape_kabutan_volume_ranking" /\ Val(parsed).kind = "return") =>
        LET page == Val(parsed).value
        IN  /\ page.table = None => ret = Return(PyNone)
            /\ (/\ page.table # None
                /\ Val(page.table).tbody # None
                /\ \A i \in DOMAIN Val(Val(page.table).tbody) :
                      Val(Val(page.table).tbody)[i] \in RankingRows)
                 => LET rows == Val(Val(page.table).tbody)
                    IN  ret = Return(PyList([i \in DOMAIN rows |->
                                                C17_Expected(rows[i])]))

\* C18: stock_volume_get(page=N) scrapes the pages 1..N, each once and in
\* ascending order, sleeps once after each scraped page, and returns a
\* DataFrame with the ten named columns whose rows are the pages' rows in
\* page order.
C18_PagesInOrder ==
    (/\ op = "stock_volume_get"
     /\ "page" \in DOMAIN arg
     /\ Stops(ScrapedPages(Val(parsed))) \cap 1..arg.page = {})
        => /\ ret.kind = "return"
           /\ fetched = [i \in 1..arg.page |-> RankingUrl(i)]
           /\ effects = [i \in 1..arg.page |-> Slept(i)]
           /\ ret.value
                = DataFrame(RowsOf(ScrapedPages(Val(parsed)), 1, arg.page),
                            ColumnNames)

\* the pages stock_volume_get() asks for when nothing stops it
C29_AllPages == [i \in 1..LastPage |-> RankingUrl(i)]

\* the first page without a ranking table, 0 when every page has one or
\* an earlier page failed otherwise
C29_FirstNone(scraped) ==
    LET stops == Stops(scraped)
        first == CHOOSE i \in stops : \A j \in stops : i <= j
    IN  IF stops # {} /\ scraped[first] = Return(PyNone) THEN first ELSE 0

\* C29: stock_volume_get() requests the pages 1 to 79 strictly in
\* ascending order; when scrape_kabutan_volume_ranking returns None for a
\* page, the call raises at that page, requests no later page and returns
\* no DataFrame: the rows of the pages scraped before are lost.
C29_StopsAtNone ==
    (op = "stock_volume_get" /\ DOMAIN arg = {}) =>
        /\ fetched = SubSeq(C29_AllPages, 1, Len(fetched))
        /\ Stops(ScrapedPages(Val(parsed))) = {} => fetched = C29_AllPages
        /\ C29_FirstNone(ScrapedPages(Val(parsed))) # 0 =>
               /\ ret.kind = "raise"
               /\ Len(fetched) = C29_FirstNone(ScrapedPages(Val(parsed)))

\* C29 happens: the first page had a row, the second had no ranking table;
\* the call raised after two requests
C29_Witness ==
    /\ op = "stock_volume_get"
    /\ DOMAIN arg = {}
    /\ Val(parsed).pages = <<Return(Table(<<SecondRow>>)), Return(NoTable)>>
    /\ fetched = <<RankingUrl(1), RankingUrl(2)>>
    /\ effects = <<Slept(1)>>
    /\ ret = Raise("TypeError")

----------------------------------------------------------------------------
(* tumu.stock.stock_jp                                                     *)
(*                                                                         *)
(* What the data library hands back (StooqDailyReader.read, Ticker.history)*)
(* is Raise(exception) or Return(frame); a frame has the Optional name of  *)
(* its index, the index values, the column labels and the rows, each the   *)
(* sequence of its cells in column order.  A cell is a number, a text, a   *)
(* day, NaN or NA.  A table is a frame after reset_index: labels and rows. *)
(* The column types (float64, int64, datetime64) are left out.             *)

Num(n) == [num |-> n]

Str(s) == [str |-> s]

Day(n) == [day |-> n]

NaN == [nan |-> TRUE]

PdNA == [na |-> TRUE]

DefaultColumns == <<"Date", "Open", "High", "Low", "Close", "Volume">>

\* pd.DataFrame(): a frame without columns
EmptyFrame_NoColumns == DataFrame(<<>>, <<>>)

\* pd.DataFrame(columns=default_columns), empty_df.copy()
EmptyFrame == DataFrame(<<>>, DefaultColumns)

Elements(q) == {q[i] : i \in DOMAIN q}

\* df.empty: no row or no column
IsEmpty(frame) == frame.rows = <<>> \/ frame.columns = <<>>

\* df.reset_index(): the index becomes the first column, under its name or
\* "index"; None when a column has that label already (ValueError)
ResetIndex(frame) ==
    LET label == IF frame.name = None THEN "index" ELSE Val(frame.name)
    IN  IF label \in Elements(frame.columns) THEN None
        ELSE Some([columns |-> <<label>> \o frame.columns,
                   rows |-> [i \in DOMAIN frame.rows |->
                                <<frame.index[i]>> \o frame.rows[i]]])

\* the label the loop over stooq.columns maps a column to, lower being
\* col.lower()
Canonical(col, lower) ==
    CASE lower = "date" -> "Date"
      [] lower = "open" -> "Open"
      [] lower = "high" -> "High"
      [] lower = "low" -> "Low"
      [] lower = "close" -> "Close"
      [] lower = "volume" -> "Volume"
      [] OTHER -> col

\* stooq.rename(columns=column_mapping)
Renamed(table) ==
    [table EXCEPT !.columns =
        [i \in DOMAIN table.columns |->
            Canonical(table.columns[i], Lower(table.columns[i]))]]

\* the positions of the columns that df[labels] picks: for each label in
\* turn, every column that carries it
RECURSIVE Positions(_, _)
Positions(columns, labels) ==
    IF labels = <<>> THEN <<>>
    ELSE SelectSeq([p \in DOMAIN columns |-> p],
                   LAMBDA p : columns[p] = labels[1])
           \o Positions(columns, Tail(labels))

\* the table of the columns at the positions
Columns(table, positions) ==
    [columns |-> [k \in DOMAIN positions |-> table.columns[positions[k]]],
     rows |-> [i \in DOMAIN table.rows |->
                  [k \in DOMAIN positions |-> table.rows[i][positions[k]]]]]

\* df[labels]
Pick(table, labels) == Columns(table, Positions(table.columns, labels))

\* the default columns the table has, in the default order
Available(table) ==
    SelectSeq(DefaultColumns, LAMBDA c : c \in Elements(table.columns))

\* the six default columns in the default order: those of the table, and a
\* column of the filler for each one it lacks.  A label that two columns
\* carry gives two columns.
Completed(table, filler) ==
    LET missing == SelectSeq(DefaultColumns,
                             LAMBDA c : c \notin Elements(table.columns))
    IN  Pick([columns |-> table.columns \o missing,
              rows |-> [i \in DOMAIN table.rows |->
                           table.rows[i] \o [k \in DOMAIN missing |-> filler]]],
             DefaultColumns)

\* pd.to_numeric(v, errors='coerce') of one cell
ToNumeric(v) == IF "num" \in DOMAIN v THEN v ELSE NaN

\* the cell after the conversions of its column: the prices to numbers, the
\* volume to a number with 0 for NaN, the date as it is
Converted(label, v) ==
    IF label = "Date" THEN v
    ELSE IF label = "Volume" /\ ToNumeric(v) = NaN THEN Num(0)
    ELSE ToNumeric(v)

\* sort_values(by='Date'): ascending and stable, the cells that are no day
\* last; date is the position of the Date column
SortedByDate(rows, date) ==
    LET before(i, j) ==
            IF "day" \in DOMAIN rows[i][date]
            THEN \/ "day" \notin DOMAIN rows[j][date]
                 \/ rows[i][date].day < rows[j][date].day
                 \/ rows[i][date].day = rows[j][date].day /\ i < j
            ELSE "day" \notin DOMAIN rows[j][date] /\ i < j
        rank(j) == Cardinality({i \in DOMAIN rows : before(i, j)}) + 1
    IN  [p \in DOMAIN rows |-> rows[CHOOSE j \in DOMAIN rows : rank(j) = p]]

\* the end of both functions, on the table of the default columns: the
\* conversions and the sort.  With a label carried twice the conversion or
\* the sort raises, and the except branch returns the empty frame.
Finished(table) ==
    IF table.columns # DefaultColumns THEN EmptyFrame
    ELSE DataFrame(
           SortedByDate([i \in DOMAIN table.rows |->
                            [k \in DOMAIN DefaultColumns |->
                                Converted(DefaultColumns[k],
                                          table.rows[i][k])]], 1),
           DefaultColumns)

\* stooq_jp_data_get after reset_index
StooqTable(table) ==
    IF Available(Renamed(table)) = <<>> THEN EmptyFrame
    ELSE Finished(Completed(Renamed(table), PdNA))

\* stooq_jp_data_get(stock_code, date_s, date_e): every exception ends in
\* the except branch
Stock_stooq_jp_data_get(read) ==
    IF read.kind = "raise" THEN Return(EmptyFrame)
    ELSE IF IsEmpty(read.value) THEN Return(EmptyFrame)
    ELSE IF ResetIndex(read.value) = None THEN Return(EmptyFrame)
    ELSE Return(StooqTable(Val(ResetIndex(read.value))))

\* datetime.strptime(s, '%Y-%m-%d') succeeds
IsDate(parts) ==
    /\ Len(parts) = 3
    /\ \A k \in 1..3 : IsDigits(parts[k])
    /\ Len(parts[1]) = 4 /\ Len(parts[2]) <= 2 /\ Len(parts[3]) <= 2
    /\ DecimalValue(parts[1]) >= 1
    /\ DecimalValue(parts[2]) \in 1..12
    /\ DecimalValue(parts[3])
         \in 1..DaysInMonth(DecimalValue(parts[1]), DecimalValue(parts[2]))

ValidDate(s) == IsDate(Split(s, "-"))

\* (date + timedelta(days=1)).strftime('%Y-%m-%d')
NextDay(y, m, d) ==
    IF d < DaysInMonth(y, m) THEN Pad4(y) \o "-" \o Pad2(m) \o "-" \o Pad2(d + 1)
    ELSE IF m < 12 THEN Pad4(y) \o "-" \o Pad2(m + 1) \o "-01"
    ELSE Pad4(y + 1) \o "-01-01"

DayAfter(parts) ==
    NextDay(DecimalValue(parts[1]), DecimalValue(parts[2]),
            DecimalValue(parts[3]))

\* the call of ticker.history that yfinance_jp_data_get makes
HistoryCall(stock_code, date_s, date_e) ==
    [symbol |-> stock_code \o ".T", start |-> date_s,
     end |-> DayAfter(Split(date_e, "-"))]

\* yfinance_jp_data_get after reset_index: the Date column must be there
\* and hold days; a default column carried twice cannot be copied
YFinanceTable(table) ==
    IF "Date" \notin Elements(table.columns) THEN EmptyFrame
    ELSE IF \E i \in DOMAIN table.rows, k \in DOMAIN table.columns :
               table.columns[k] = "Date" /\ "day" \notin DOMAIN table.rows[i][k]
    THEN EmptyFrame
    ELSE IF Len(Positions(table.columns, Available(table)))
              # Len(Available(table))
    THEN EmptyFrame
    ELSE Finished(Completed(table, NaN))

\* yfinance_jp_data_get(stock_code, date_s, date_e), from the answer of
\* ticker.history on: every exception ends in an except branch
Stock_yfinance_jp_data_get(history) ==
    IF history.kind = "raise" THEN Return(EmptyFrame)
    ELSE IF IsEmpty(history.value) THEN Return(EmptyFrame)
    ELSE IF ResetIndex(history.value) = None THEN Return(EmptyFrame)
    ELSE Return(YFinanceTable(Val(ResetIndex(history.value))))

----------------------------------------------------------------------------
(* The stock price readers: one call per behaviour                          *)

MaxBars == 2

\* one day's row: its day and the cell that stands in each of its columns
BarPool ==
    [day : {Day(1), Day(2)}, cell : {Num(100), Num(250), Str("n/a")}]

ColumnsPool ==
    {<<"Open", "High", "Low", "Close", "Volume">>,
     <<"open", "high", "low", "close", "volume">>,
     <<"Open", "High", "Low", "Close">>,
     <<"Open", "open", "High", "Low", "Close", "Volume">>,
     <<"Adj Close">>,
     <<"Date", "Close">>,
     <<>>}

FramePool ==
    {[name |-> name,
      index |-> [i \in DOMAIN bars |-> bars[i].day],
      columns |-> columns,
      rows |-> [i \in DOMAIN bars |->
                   [k \in DOMAIN columns |-> bars[i].cell]]] :
        name \in {Some("Date"), None},
        columns \in ColumnsPool,
        bars \in SeqsUpTo(BarPool, MaxBars)}

LibraryOutcomes ==
    {Return(frame) : frame \in FramePool}
        \cup {Raise("RemoteDataError"), Raise("ConnectionError"),
              Raise("KeyError")}

DateArgs ==
    {<<"2024-01-01", "2024-01-31">>, <<"2024-12-01", "2024-12-31">>,
     <<"2024/01/01", "2024-01-31">>, <<"2024-01-01", "2024-02-30">>,
     <<"", "2024-01-31">>}

StockInit == RecordInit

\* the call of StooqDailyReader that stooq_jp_data_get makes
ReaderCall(stock_code, date_s, date_e) ==
    [symbol |-> stock_code \o ".JP", start |-> date_s, end |-> date_e]

\* the two datetimes of the call are written as their isoformat() text
CallStooq ==
    /\ op = ""
    /\ \E read \in LibraryOutcomes :
          /\ op' = "stooq_jp_data_get"
          /\ arg' = [stock_code |-> "7203", date_s |-> "2024-01-01T00:00:00",
                     date_e |-> "2024-01-31T00:00:00"]
          /\ obj' = None
          /\ ret' = Stock_stooq_jp_data_get(read)
          /\ fetched' = <<ReaderCall("7203", "2024-01-01T00:00:00",
                                     "2024-01-31T00:00:00")>>
          /\ parsed' = Some(read)
          /\ now' = <<>>
          /\ effects' = <<>>

\* yfinance_jp_data_get(stock_code, date_s, date_e): with a date that
\* strptime refuses the library is not called
Stock_yfinance_call(stock_code, date_s, date_e, history) ==
    IF ValidDate(date_s) /\ ValidDate(date_e)
    THEN [ret |-> Stock_yfinance_jp_data_get(history),
          fetched |-> <<HistoryCall(stock_code, date_s, date_e)>>,
          parsed |-> Some(history)]
    ELSE [ret |-> Return(EmptyFrame), fetched |-> <<>>, parsed |-> None]

CallYFinance ==
    /\ op = ""
    /\ \E dates \in DateArgs, history \in LibraryOutcomes :
          LET out == Stock_yfinance_call("7203", dates[1], dates[2], history)
          IN  /\ op' = "yfinance_jp_data_get"
              /\ arg' = [stock_code |-> "7203", date_s |-> dates[1],
                         date_e |-> dates[2]]
              /\ obj' = None
              /\ ret' = out.ret
              /\ fetched' = out.fetched
              /\ parsed' = out.parsed
              /\ now' = <<>>
              /\ effects' = <<>>

StockNext ==
    \/ CallStooq
    \/ CallYFinance

StockSpec == StockInit /\ [][StockNext]_vars

----------------------------------------------------------------------------
(* Properties of the stock price readers, checked under StockSpec          *)

\* the call obtained no data: the library was not called, raised, or handed
\* back a frame without rows
C19_NoData ==
    \/ parsed = None
    \/ Val(parsed).kind = "raise"
    \/ Val(parsed).value.rows = <<>>

\* C19: yfinance_jp_data_get and stooq_jp_data_get never raise: whatever the
\* data library does (rows, no rows, missing columns, an exception) and for
\* a malformed date string they return a DataFrame whose columns are Date,
\* Open, High, Low, Close, Volume in that order, empty when no data was
\* obtained.
C19_AlwaysSixColumns ==
    op \in {"stooq_jp_data_get", "yfinance_jp_data_get"} =>
        /\ ret.kind = "return"
        /\ ret.value.cls = "DataFrame"
        /\ ret.value.columns = DefaultColumns
        /\ \A i \in DOMAIN ret.value.rows :
              Len(ret.value.rows[i]) = Len(DefaultColumns)
        /\ C19_NoData => ret.value.rows = <<>>

\* the library handed back rows without the Volume column, and the rows
\* came back under the six columns
C19_Witness ==
    /\ op = "yfinance_jp_data_get"
    /\ parsed # None
    /\ Val(parsed).kind = "return"
    /\ Val(parsed).value.columns = <<"Open", "High", "Low", "Close">>
    /\ Len(ret.value.rows) = 2

----------------------------------------------------------------------------
(* tumu.api.edinet: the two download functions                             *)
(*                                                                         *)
(* The environment of a call says how its steps answer: dir is what        *)
(* os.makedirs(save_dir) does ("ok" or the OSError it raises), response is *)
(* what requests.get and raise_for_status do (Return(body) or Raise), file *)
(* is what open(path, 'wb') does, HOME is the Optional environment         *)
(* variable and cwd is os.getcwd().  A body has its content ("zip", "pdf"  *)
(* or "json", the error text the API sends with status 200) and says       *)
(* whether iter_content delivers it to the end.  The function's result is  *)
(* an Optional path.                                                       *)

\* os.path.join(a, b) on POSIX
PathJoin(a, b) ==
    IF StartsWith(b, "/") THEN b
    ELSE IF a = "" \/ EndsWith(a, "/") THEN a \o b
    ELSE a \o "/" \o b

DocumentUrl(doc_id) ==
    "https://api.edinet-fsa.go.jp/api/v2/documents/" \o doc_id

\* requests.get(url, params=params, stream=True)
DocumentRequest(api_key, doc_id, type) ==
    [url |-> DocumentUrl(doc_id), type |-> type, key |-> api_key]

MadeDir(path) == [kind |-> "makedirs", path |-> path, content |-> ""]

\* the file after the with block: the whole body, or what came before the
\* stream broke
Wrote(path, body) ==
    [kind |-> "write", path |-> path,
     content |-> IF body.complete THEN body.content ELSE "partial"]

Extracted(path) == [kind |-> "extractall", path |-> path, content |-> ""]

\* the except branch: requests.RequestException only
RequestFailed(request, done) ==
    [ret |-> Return(None), fetched |-> <<request>>, effects |-> done]

\* an exception that no except branch catches
Escaped(exc, request, done) ==
    [ret |-> Raise(exc), fetched |-> request, effects |-> done]

\* the try block of both functions up to the end of the with block: None
\* when the block went through, the outcome of the call otherwise
Downloaded(env, request, path, done) ==
    IF env.response.kind = "raise" THEN Some(RequestFailed(request, done))
    ELSE IF env.file # "ok" THEN Some(Escaped(env.file, <<request>>, done))
    ELSE IF ~env.response.value.complete
    THEN Some(RequestFailed(request,
                            Append(done, Wrote(path, env.response.value))))
    ELSE None

\* download_csv_report from the try block on, save_dir made
CsvReport(env, request, save_dir, doc_id) ==
    LET zip_path == PathJoin(save_dir, doc_id \o ".zip")
        extract_dir == PathJoin(save_dir, doc_id)
        done == <<MadeDir(save_dir)>>
        written == <<MadeDir(save_dir), Wrote(zip_path, env.response.value),
                     MadeDir(extract_dir)>>
    IN  IF Downloaded(env, request, zip_path, done) # None
        THEN Val(Downloaded(env, request, zip_path, done))
        ELSE IF env.response.value.content # "zip"
        THEN Escaped("BadZipFile", <<request>>, written)
        ELSE [ret |-> Return(Some(extract_dir)), fetched |-> <<request>>,
              effects |-> Append(written, Extracted(extract_dir))]

\* download_csv_report(api_key, doc_id, save_dir)
Edinet_download_csv_report(api_key, doc_id, save_dir, env) ==
    IF env.dir # "ok" THEN Escaped(env.dir, <<>>, <<>>)
    ELSE CsvReport(env, DocumentRequest(api_key, doc_id, 5), save_dir, doc_id)

\* save_dir of download_pdf_report when the caller gives none
DefaultPdfDir(env) ==
    IF TruthyStr(env.HOME) THEN PathJoin(Val(env.HOME), "Downloads")
    ELSE PathJoin(env.cwd, "Downloads")

\* download_pdf_report from the try block on, save_dir made
PdfReport(env, request, save_dir, pdf_path) ==
    IF Downloaded(env, request, pdf_path, <<MadeDir(save_dir)>>) # None
    THEN Val(Downloaded(env, request, pdf_path, <<MadeDir(save_dir)>>))
    ELSE [ret |-> Return(Some(pdf_path)), fetched |-> <<request>>,
          effects |-> <<MadeDir(save_dir),
                        Wrote(pdf_path, env.response.value)>>]

PdfReportIn(env, request, save_dir, doc_id) ==
    PdfReport(env, request, save_dir, PathJoin(save_dir, doc_id \o ".pdf"))

\* download_pdf_report(api_key, doc_id, save_dir), save_dir an Optional
Edinet_download_pdf_report(api_key, doc_id, save_dir, env) ==
    IF env.dir # "ok" THEN Escaped(env.dir, <<>>, <<>>)
    ELSE PdfReportIn(env, DocumentRequest(api_key, doc_id, 2),
                     IF save_dir = None THEN DefaultPdfDir(env)
                     ELSE Val(save_dir),
                     doc_id)

----------------------------------------------------------------------------
(* The EDINET downloads: one call per behaviour                             *)

Bodies == [content : {"zip", "pdf", "json"}, complete : BOOLEAN]

EdinetEnvs ==
    [dir : {"ok", "PermissionError"},
     response : {Return(body) : body \in Bodies}
                    \cup {Raise("ConnectionError"), Raise("HTTPError")},
     file : {"ok", "PermissionError"},
     HOME : {None, Some(""), Some("/home/user")},
     cwd : {"/work"}]

DocIdPool == {"S100UZY2"}

CsvEdinetDefaultDir == "./edinet_data"

\* the environment variable is not read by download_csv_report
CallDownloadCsv ==
    /\ op = ""
    /\ \E doc_id \in DocIdPool, save_dir \in {CsvEdinetDefaultDir, "out/"},
          env \in {e \in EdinetEnvs : e.HOME = None} :
          LET out == Edinet_download_csv_report("key", doc_id, save_dir, env)
          IN  /\ op' = "download_csv_report"
              /\ arg' = [api_key |-> "key", doc_id |-> doc_id,
                         save_dir |-> Some(save_dir)]
              /\ obj' = None
              /\ ret' = out.ret
              /\ fetched' = out.fetched
              /\ parsed' = Some(env)
              /\ now' = <<>>
              /\ effects' = out.effects

CallDownloadPdf ==
    /\ op = ""
    /\ \E doc_id \in DocIdPool, save_dir \in {None, Some("/data/pdf")},
          env \in EdinetEnvs :
          LET out == Edinet_download_pdf_report("key", doc_id, save_dir, env)
          IN  /\ op' = "download_pdf_report"
              /\ arg' = [api_key |-> "key", doc_id |-> doc_id,
                         save_dir |-> save_dir]
              /\ obj' = None
              /\ ret' = out.ret
              /\ fetched' = out.fetched
              /\ parsed' = Some(env)
              /\ now' = <<>>
              /\ effects' = out.effects

EdinetInit == RecordInit

EdinetNext ==
    \/ CallDownloadCsv
    \/ CallDownloadPdf

EdinetSpec == EdinetInit /\ [][EdinetNext]_vars

----------------------------------------------------------------------------
(* Properties of the EDINET downloads, checked under EdinetSpec            *)

\* the download cannot succeed: the directory or the file cannot be
\* written, the request fails or breaks off, or the body to unpack is no ZIP
C20_Failure ==
    LET env == Val(parsed)
    IN  \/ env.dir # "ok"
        \/ env.file # "ok"
        \/ env.response.kind = "raise"
        \/ ~env.response.value.complete
        \/ op = "download_csv_report" /\ env.response.value.content # "zip"

\* the path the call is to hand back
C20_OutputPath ==
    IF op = "download_csv_report"
    THEN PathJoin(Val(arg.save_dir), arg.doc_id)
    ELSE PathJoin(IF arg.save_dir = None THEN DefaultPdfDir(Val(parsed))
                  ELSE Val(arg.save_dir),
                  arg.doc_id \o ".pdf")

\* C20: download_csv_report and download_pdf_report return the output path
\* on success and None on every failure (HTTP error, transport error,
\* unwritable file, body that is not a valid ZIP); they do not raise.
C20_PathOrNone ==
    op \in {"download_csv_report", "download_pdf_report"} =>
        /\ ret.kind = "return"
        /\ ret.value = IF C20_Failure THEN None ELSE Some(C20_OutputPath)

----------------------------------------------------------------------------
(* main.zen_feed_data_get, the function tumu.feed.zenn replaces, and       *)
(* zenn.zen_feed_data_get, which stands in for it                          *)

\* for link in article['links']:
\*     if link.get('type', '').startswith('image/'): ...; break
ImageLinks(links) ==
    {i \in 1..Len(links) : StartsWith(Get(links[i], "type", ""), "image/")}

\* link.get('rel') == 'enclosure' and link.get('type', '').startswith('image/')
IsImageEnclosure(link) ==
    /\ GetOpt(link, "rel") = Some("enclosure")
    /\ StartsWith(Get(link, "type", ""), "image/")

\* str(image_url)
StrOf(o) == IF o = None THEN "None" ELSE Val(o)

\* the dict literal of lines 32-38
Main_article_dict(article, formatted_date, image_url) ==
    [title |-> article.title,
     summary |-> Truncate(article.summary),
     imageUrl |-> StrOf(image_url),
     url |-> article.link,
     publishedDate |-> formatted_date]

\* the error of lines 12-17 on an entry, "" when they go through: a
\* subscript of a missing key, None[:6], datetime() of too few fields or
\* of a field out of range
Main_BasicsError(article) ==
    IF {"title", "summary", "link", "published_parsed"} \ DOMAIN article # {}
    THEN "KeyError"
    ELSE IF article.published_parsed = None THEN "TypeError"
    ELSE IF Len(First6(Val(article.published_parsed))) < 3 THEN "TypeError"
    ELSE IF TryDatetime(Val(article.published_parsed)) = None
    THEN "ValueError"
    ELSE IF "links" \notin DOMAIN article THEN "KeyError"
    ELSE ""

\* the first loop over the links: image_url, or the KeyError of
\* link['href'] on the first image link
Main_image_url(links, hits) ==
    IF hits = {} THEN Return(None)
    ELSE IF "href" \notin DOMAIN links[CHOOSE i \in hits : \A k \in hits : i <= k]
    THEN Raise("KeyError")
    ELSE Return(Some(links[CHOOSE i \in hits : \A k \in hits : i <= k].href))

RECURSIVE Main_second_loop(_, _, _)
\* the second loop over the links.  An image enclosure ends it (its
\* link['href'] may raise); any link before that one assigns article_dict.
\* The result is the article_dict after the loop, an Optional inside a
\* Return: None while the name is still unbound
Main_second_loop(links, article_dict, fresh) ==
    IF links = <<>> THEN Return(article_dict)
    ELSE IF IsImageEnclosure(Head(links))
    THEN IF "href" \in DOMAIN Head(links) THEN Return(article_dict)
         ELSE Raise("KeyError")
    ELSE Main_second_loop(Tail(links), Some(fresh), fresh)

\* one pass of the loop over f['entries'], lines 10-40: state is the
\* article_dict and the articles_data before the pass; the result is the
\* state after it or the exception that ends the call
Main_pass(article, state, image, date) ==
    IF image.kind = "raise" THEN image
    ELSE LET looped ==
                 Main_second_loop(article.links, state.article_dict,
                                  Main_article_dict(article, date,
                                                    image.value))
         IN  IF looped.kind = "raise" THEN looped
             ELSE IF looped.value = None THEN Raise("UnboundLocalError")
             ELSE Return([article_dict |-> looped.value,
                          articles_data |-> Append(state.articles_data,
                                                   Val(looped.value))])

Main_entry(article, state) ==
    IF Main_BasicsError(article) # "" THEN Raise(Main_BasicsError(article))
    ELSE Main_pass(article, state,
                   Main_image_url(article.links, ImageLinks(article.links)),
                   Strftime(Val(TryDatetime(Val(article.published_parsed)))))

RECURSIVE Main_loop(_, _)
Main_loop(entries, state) ==
    IF entries = <<>> THEN Return(PyList(state.articles_data))
    ELSE LET after == Main_entry(Head(entries), state)
         IN  IF after.kind = "raise" THEN after
             ELSE Main_loop(Tail(entries), after.value)

\* main.zen_feed_data_get(url), doc being what feedparser.parse(url) returned
Main_zen_feed_data_get(url, doc) ==
    Main_loop(doc.entries, [article_dict |-> None, articles_data |-> <<>>])

\* ZennFeedParser.parse_feed_as_dict(url)
Zenn_parse_feed_as_dict(url, parsed_feed) ==
    IF parsed_feed.kind = "raise" THEN parsed_feed
    ELSE Return(PyList([i \in 1..Len(parsed_feed.value.items) |->
                           ZennArticle_to_dict(parsed_feed.value.items[i])]))

\* zenn.zen_feed_data_get(url)
Zenn_zen_feed_data_get(url, doc, clock) ==
    Zenn_parse_feed_as_dict(url, Zenn_parse_feed(url, doc, clock))

----------------------------------------------------------------------------
(* The two zen_feed_data_get functions on one parsed feed: the document    *)
(* feedparser will deliver is drawn first, one call of one of the two      *)
(* functions follows.                                                      *)

HtmlLink == [rel |-> "alternate", type |-> "text/html", href |-> "https://z/a"]

OgpLink ==
    [rel |-> "enclosure", type |-> "image/png", href |-> "https://z/ogp.png"]

\* the shapes of an entry's links list: empty, the page alone, the page
\* and then the image enclosure (what zenn.dev sends), the enclosure first,
\* an image that is no enclosure, an enclosure without href
LinksShapes ==
    [empty |-> <<>>,
     page |-> <<HtmlLink>>,
     zenn |-> <<HtmlLink, OgpLink>>,
     first |-> <<OgpLink, HtmlLink>>,
     icon |-> <<HtmlLink, [type |-> "image/jpeg", href |-> "https://z/i.jpg"]>>,
     nohref |-> <<HtmlLink, [rel |-> "enclosure", type |-> "image/png"]>>]

\* an entry of the Zenn feed with the links of shape k
ZennEntry(k) ==
    [title |-> k, summary |-> "about " \o k, link |-> "https://z/" \o k,
     published_parsed |-> Some(LeapDay), links |-> LinksShapes[k]]

\* the entries drawn: one per shape of the links, one with a long summary,
\* and entries that lack a field or a usable date
ZennEntryPool ==
    {ZennEntry(k) : k \in DOMAIN LinksShapes}
      \cup {[ZennEntry("zenn") EXCEPT !.title = "long",
                                      !.summary = Mk(SummaryLimit + 1)],
            [title |-> "nosummary", link |-> "https://z/n",
             published_parsed |-> Some(LeapDay), links |-> <<HtmlLink>>],
            [ZennEntry("zenn") EXCEPT !.title = "nodate",
                                      !.published_parsed = None],
            [ZennEntry("zenn") EXCEPT !.title = "month13",
                                      !.published_parsed = Some(Month13)]}

ZennDocs ==
    {[feed |-> [title |-> "Zenn"], entries |-> es] :
        es \in SeqsUpTo(ZennEntryPool, MaxEntries)}

ZennInit ==
    /\ op = "" /\ arg = <<>> /\ obj = None /\ ret = None
    /\ fetched = <<>> /\ now = <<>> /\ effects = <<>>
    /\ parsed \in {Some(doc) : doc \in ZennDocs}

\* main.zen_feed_data_get(AUrl): datetime.now() is not called
CallMainZenFeedDataGet ==
    /\ op = ""
    /\ op' = "main.zen_feed_data_get"
    /\ arg' = [url |-> AUrl]
    /\ obj' = None
    /\ ret' = Main_zen_feed_data_get(AUrl, Val(parsed))
    /\ fetched' = <<AUrl>>
    /\ now' = <<>>
    /\ UNCHANGED <<parsed, effects>>

\* zenn.zen_feed_data_get(AUrl)
CallZennZenFeedDataGet ==
    /\ op = ""
    /\ \E clock \in Clocks(Len(Val(parsed).entries)) :
          /\ op' = "zenn.zen_feed_data_get"
          /\ arg' = [url |-> AUrl]
          /\ obj' = None
          /\ ret' = Zenn_zen_feed_data_get(AUrl, Val(parsed), clock)
          /\ fetched' = <<AUrl>>
          /\ now' = clock
          /\ UNCHANGED <<parsed, effects>>

ZennNext ==
    \/ CallMainZenFeedDataGet
    \/ CallZennZenFeedDataGet

ZennSpec == ZennInit /\ [][ZennNext]_vars

----------------------------------------------------------------------------
(* Properties of the two zen_feed_data_get functions, checked under       *)
(* ZennSpec                                                                *)

\* every entry has title, summary, link, a valid published_parsed and a
\* links list
C21_Complete(doc) ==
    \A i \in 1..Len(doc.entries) :
        LET entry == doc.entries[i]
        IN  /\ {"title", "summary", "link", "published_parsed", "links"}
                  \subseteq DOMAIN entry
            /\ entry.published_parsed # None
            /\ TryDatetime(Val(entry.published_parsed)) # None

\* C21: on a feed whose entries all have title, summary, link, a valid
\* published_parsed and a links list, zenn.zen_feed_data_get returns the
\* same list of dicts, one per entry and in order, as the original
\* main.zen_feed_data_get does.
C21_SameAsOriginal ==
    (op = "zenn.zen_feed_data_get" /\ C21_Complete(Val(parsed))) =>
        ret = Main_zen_feed_data_get(AUrl, Val(parsed))


\* the i-th dict describes the i-th entry: its title, url and date
C30_Describes(d, entry) ==
    /\ d.title = entry.title
    /\ d.url = entry.link
    /\ d.publishedDate =
           Strftime(Val(TryDatetime(Val(entry.published_parsed))))

\* C30: main.zen_feed_data_get returns exactly one dict per feed entry, in
\* entry order, the i-th dict describing the i-th entry, whatever the shape
\* of each entry's links list (stated for the feeds whose entries hold
\* every field the function subscripts).
C30_OneDictPerEntry ==
    (op = "main.zen_feed_data_get" /\ C21_Complete(Val(parsed))) =>
        /\ ret.kind = "return"
        /\ Len(ret.value.items) = Len(Val(parsed).entries)
        /\ \A i \in 1..Len(ret.value.items) :
               C30_Describes(ret.value.items[i], Val(parsed).entries[i])


----------------------------------------------------------------------------
(* Further properties of the parsers on one entry, checked under EntrySpec *)

\* published_parsed is absent or None and updated_parsed is a valid time
\* tuple
C22_UpdatedOnly(entry) ==
    /\ C10_NoTime(entry, "published_parsed")
    /\ ~C10_NoTime(entry, "updated_parsed")
    /\ TryDatetime(Val(entry["updated_parsed"])) # None

\* C22: in every adapter, an entry whose published_parsed is absent or None
\* and whose updated_parsed is a valid time tuple gets the date of
\* updated_parsed, formatted as year, month, day, as its published_date.
C22_UpdatedSecond ==
    (Parsed /\ C22_UpdatedOnly(TheEntry)) =>
        TheArticle.published_date =
            Strftime(Val(TryDatetime(Val(TheEntry["updated_parsed"]))))


\* the chain of author fields the adapter reads, each "" when absent:
\* author, dc:creator (aws only), authors[0].name
C23_Chain(entry) ==
    <<Get(entry, "author", ""),
      IF op = "AWSParser.parse_feed" THEN Get(entry, "dc:creator", "") ELSE "",
      FirstAuthorName("", entry)>>

\* the first non-empty value of the chain, "" when there is none
C23_FirstNonEmpty(chain) ==
    LET hits == {i \in 1..Len(chain) : chain[i] # ""}
    IN  IF hits = {} THEN ""
        ELSE chain[CHOOSE i \in hits : \A k \in hits : i <= k]

\* C23: in aws (author, dc:creator, authors[0].name) and in qiita (author,
\* authors[0].name) the article's author is the first non-empty value of
\* the chain, whether each field is absent, present but empty, or
\* non-empty.  Stated for the entries without author_detail, which qiita
\* reads as well.
C23_AuthorFirstMatch ==
    (/\ Parsed
     /\ op \in {"AWSParser.parse_feed", "QiitaParser.parse_feed"}
     /\ "author_detail" \notin DOMAIN TheEntry) =>
        TheArticle.author = Some(C23_FirstNonEmpty(C23_Chain(TheEntry)))


\* the fixed organization name of the adapter
C24_Organization ==
    IF op = "DeepMindParser.parse_feed" THEN "DeepMind" ELSE "OpenAI"

\* the entry carries no per-article author: no non-empty author and no
\* non-empty dc:creator
C24_NoAuthor(entry) ==
    Get(entry, "author", "") = "" /\ Get(entry, "dc:creator", "") = ""

\* C24: in the DeepMind and OpenAI adapters no article has an empty author,
\* and an entry that carries no per-article author (author absent or empty,
\* no non-empty dc:creator) gets the organization name, "DeepMind" or
\* "OpenAI".
C24_OrganizationDefault ==
    (Parsed /\ op \in {"DeepMindParser.parse_feed",
                       "OpenAIParser.parse_feed"}) =>
        /\ TheArticle.author # Some("")
        /\ C24_NoAuthor(TheEntry) =>
               TheArticle.author = Some(C24_Organization)


\* the summary of the article: a str in ZennArticle, an Optional in Article
C25_Summary ==
    IF op = "ZennFeedParser.parse_feed" THEN TheArticle.summary
    ELSE Val(TheArticle.summary)

\* the adapters that read the description field
C25_ReadsDescription ==
    op \in {"GoogleCloudParser.parse_feed", "AWSParser.parse_feed",
            "HuggingFaceParser.parse_feed", "DeepMindParser.parse_feed",
            "OpenAIParser.parse_feed", "GoogleAIParser.parse_feed"}

\* C25: in every adapter an entry with a non-empty summary field yields an
\* article whose summary is exactly that field, whatever its description
\* and content hold; where the adapter reads description, an empty summary
\* with a non-empty description yields the description, content[0] coming
\* only after both.
C25_SummaryFirst ==
    Parsed =>
        /\ Get(TheEntry, "summary", "") # "" =>
               C25_Summary = TheEntry["summary"]
        /\ (/\ C25_ReadsDescription
            /\ Get(TheEntry, "summary", "") = ""
            /\ Get(TheEntry, "description", "") # "") =>
               C25_Summary = TheEntry["description"]


\* width*height of a thumbnail, a missing width or height counting as 0
C26_Area(x) ==
    IF ThumbnailArea(x) = None THEN 0 ELSE Val(ThumbnailArea(x))

\* the thumbnail with the largest area, the first one of a tie
C26_Largest(thumbnails) ==
    thumbnails[CHOOSE i \in 1..Len(thumbnails) :
                   \A k \in 1..Len(thumbnails) :
                       /\ C26_Area(thumbnails[k]) <= C26_Area(thumbnails[i])
                       /\ k < i => C26_Area(thumbnails[k])
                                      < C26_Area(thumbnails[i])]

\* C26: in the Google AI adapter, for every non-empty media_thumbnail
\* list, selecting the thumbnail never raises and image_url is the url of
\* the thumbnail with the largest width*height, a missing width or height
\* counting as 0 and the first one winning a tie (stated for a largest
\* thumbnail that has a url).
C26_LargestNeverRaises ==
    (/\ op = "GoogleAIParser.parse_feed"
     /\ Get(TheEntry, "media_thumbnail", <<>>) # <<>>) =>
        /\ ret.kind = "return"
        /\ "url" \in DOMAIN C26_Largest(TheEntry["media_thumbnail"]) =>
               TheArticle.image_url =
                   Some(C26_Largest(TheEntry["media_thumbnail"]).url)


----------------------------------------------------------------------------
(* The feed collaborator may fail: feedparser.parse(url) either hands the  *)
(* document back or raises.  Its outcome is drawn first and one parse_feed *)
(* call of one adapter follows; fetched lists the invocations of the       *)
(* collaborator the call made.                                             *)

\* a call that sees a failed fetch as an empty feed
FeedCall_Swallowed(url, outcome, rest) ==
    [ret |-> IF outcome.kind = "raise" THEN Return(PyList(<<>>)) ELSE rest,
     fetched |-> <<url>>]

\* "f = feedparser.parse(url)", the first statement of every parse_feed and
\* outside any try, and the rest of the function after it: outcome is what
\* the collaborator did, rest what the function makes of the document
FeedCall(url, outcome, rest) ==
    [ret |-> IF outcome.kind = "raise" THEN outcome ELSE rest,
     fetched |-> <<url>>]

\* the document the rest of parse_feed works on.  After a failure there is
\* none and the rest does not run: an empty document stands in its place
Delivered(outcome) ==
    IF outcome.kind = "return" THEN outcome.value
    ELSE [feed |-> <<>>, entries |-> <<>>]

CollaboratorErrors == {"URLError", "TimeoutError", "UnicodeDecodeError"}

\* the collaborator's outcomes: a document of at most one entry, or an error
CollaboratorOutcomes ==
    {Return([feed |-> [title |-> "The Feed"], entries |-> es]) :
        es \in SeqsUpTo(EntryPool, 1)}
      \cup {Raise(exc) : exc \in CollaboratorErrors}

TransportInit ==
    /\ op = "" /\ arg = <<>> /\ obj = None /\ ret = None
    /\ fetched = <<>> /\ now = <<>> /\ effects = <<>>
    /\ parsed \in {Some(outcome) : outcome \in CollaboratorOutcomes}

\* the state after the parse_feed call out
Transported(name, out) ==
    /\ op' = name
    /\ arg' = [url |-> AUrl]
    /\ obj' = None
    /\ ret' = out.ret
    /\ fetched' = out.fetched
    /\ now' = EntryClock
    /\ UNCHANGED <<parsed, effects>>

FetchZenn ==
    /\ op = ""
    /\ Transported("ZennFeedParser.parse_feed",
                   FeedCall(AUrl, Val(parsed),
                            Zenn_parse_feed(AUrl, Delivered(Val(parsed)),
                                            EntryClock)))

FetchClassMethod ==
    /\ op = ""
    /\ Transported("ClassMethodParser.parse_feed",
                   FeedCall(AUrl, Val(parsed),
                            ClassMethod_parse_feed(AUrl,
                                                   Delivered(Val(parsed)),
                                                   EntryClock)))

FetchGGen ==
    /\ op = ""
    /\ Transported("GGenParser.parse_feed",
                   FeedCall(AUrl, Val(parsed),
                            GGen_parse_feed(AUrl, Delivered(Val(parsed)),
                                            EntryClock)))

FetchQiita ==
    /\ op = ""
    /\ Transported("QiitaParser.parse_feed",
                   FeedCall(AUrl, Val(parsed),
                            Qiita_parse_feed(AUrl, Delivered(Val(parsed)),
                                             EntryClock)))

\* parse_feed(url), lang the default "en"
FetchGoogleCloud ==
    /\ op = ""
    /\ Transported("GoogleCloudParser.parse_feed",
                   FeedCall(AUrl, Val(parsed),
                            GoogleCloud_parse_feed(AUrl, "en",
                                                   Delivered(Val(parsed)),
                                                   EntryClock)))

\* parse_feed(url), lang the default "ja"
FetchAWS ==
    /\ op = ""
    /\ Transported("AWSParser.parse_feed",
                   FeedCall(AUrl, Val(parsed),
                            AWS_parse_feed(AUrl, "ja", Delivered(Val(parsed)),
                                           EntryClock)))

FetchHuggingFace ==
    /\ op = ""
    /\ Transported("HuggingFaceParser.parse_feed",
                   FeedCall(AUrl, Val(parsed),
                            HuggingFace_parse_feed(AUrl,
                                                   Delivered(Val(parsed)),
                                                   EntryClock)))

FetchDeepMind ==
    /\ op = ""
    /\ Transported("DeepMindParser.parse_feed",
                   FeedCall(AUrl, Val(parsed),
                            DeepMind_parse_feed(AUrl, Delivered(Val(parsed)),
                                                EntryClock)))

FetchOpenAI ==
    /\ op = ""
    /\ Transported("OpenAIParser.parse_feed",
                   FeedCall(AUrl, Val(parsed),
                            OpenAI_parse_feed(AUrl, Delivered(Val(parsed)),
                                              EntryClock)))

FetchGoogleAI ==
    /\ op = ""
    /\ Transported("GoogleAIParser.parse_feed",
                   FeedCall(AUrl, Val(parsed),
                            GoogleAI_parse_feed(AUrl, Delivered(Val(parsed)),
                                                EntryClock)))

TransportNext ==
    \/ FetchZenn
    \/ FetchClassMethod
    \/ FetchGGen
    \/ FetchQiita
    \/ FetchGoogleCloud
    \/ FetchAWS
    \/ FetchHuggingFace
    \/ FetchDeepMind
    \/ FetchOpenAI
    \/ FetchGoogleAI

TransportSpec == TransportInit /\ [][TransportNext]_vars

----------------------------------------------------------------------------
(* Properties of the adapters when the collaborator fails, checked under   *)
(* TransportSpec                                                           *)

\* C27: in every feed adapter one parse_feed call invokes the feed
\* collaborator exactly once; if that invocation raises, the error reaches
\* the caller unchanged, there is no second attempt and no FeedResult or
\* list, not even a partial one, is returned.
C27_OnceAndPropagates ==
    op # "" =>
        /\ fetched = <<AUrl>>
        /\ Val(parsed).kind = "raise" => ret = Val(parsed)

\* C27 happens: the collaborator raised URLError under the Hugging Face
\* parser, which asked once and let the error through
C27_Witness ==
    /\ op = "HuggingFaceParser.parse_feed"
    /\ parsed = Some(Raise("URLError"))
    /\ fetched = <<AUrl>>
    /\ ret = Raise("URLError")

====
